---- MODULE Spec2Model ----
(***************************************************************************)
(* A model of phy6-js: the engine's tick (src/core/Engine.js), the SAT     *)
(* collision test and the iterative solvers (geometry/Collision.js), the   *)
(* body (bodies/Body.js) and the geometry helpers (Vector, Bounds,         *)
(* Vertices).                                                              *)
(*                                                                         *)
(* Numbers.  A JavaScript number x is the integer x * Q (fixed point,      *)
(* three decimals, products and quotients truncated toward zero), or one   *)
(* of the three values PInf, NInf, NaN, which follow the IEEE rules        *)
(* (0 * Infinity = NaN, x / 0 = +-Infinity, every comparison with NaN is   *)
(* false).  Negative zero is not distinguished from zero.                  *)
(***************************************************************************)
EXTENDS Integers, Sequences, FiniteSets, TLC

VARIABLES
    bodies,               \* Engine.bodies: the sequence of Body objects
    options,              \* Engine.options
    dt,                   \* the {delta, lastDelta} argument of Engine.update
    script,               \* what the user code of the scene may do to the bodies
    used,                 \* how many user operations have run
    pc,                   \* position inside Engine.update ("idle" between calls)
    collisionCandidates,  \* Engine.update's local collisionCandidates
    collisions,           \* Engine.update's local collisions
    log,                  \* phases run and events emitted by the current update
    emitted,              \* per body, the sleepEnter / sleepExit events emitted
    ticks,                \* completed Engine.update calls
    obs,                  \* what the current update has observed so far
    fn                    \* argument and result of a library function call

vars == <<bodies, options, dt, script, used, pc, collisionCandidates,
          collisions, log, emitted, ticks, obs, fn>>

engineVars == <<bodies, options, dt, script, used, pc, collisionCandidates,
                collisions, log, emitted, ticks, obs>>

-----------------------------------------------------------------------------
(* Numbers *)

Q == 10 * 10 * 10
PInf == 1000000 * Q
NInf == -PInf
NaN == 2 * PInf

IsNaN(a) == a = NaN
Finite(a) == a > NInf /\ a < PInf
Abs(a) == IF a < 0 THEN -a ELSE a
Sgn(a) == IF a > 0 THEN 1 ELSE IF a < 0 THEN -1 ELSE 0

\* <, >, <=, ===, !== of JavaScript numbers
FLt(a, b) == a # NaN /\ b # NaN /\ a < b
FGt(a, b) == FLt(b, a)
FLe(a, b) == a # NaN /\ b # NaN /\ a <= b
FEq(a, b) == a # NaN /\ b # NaN /\ a = b
FNe(a, b) == ~FEq(a, b)

FNeg(a) == IF a = NaN THEN NaN ELSE -a

FAdd(a, b) ==
    IF a = NaN \/ b = NaN THEN NaN
    ELSE IF a = PInf THEN (IF b = NInf THEN NaN ELSE PInf)
    ELSE IF a = NInf THEN (IF b = PInf THEN NaN ELSE NInf)
    ELSE IF b = PInf \/ b = NInf THEN b
    ELSE a + b

FSub(a, b) == FAdd(a, FNeg(b))

\* the product and the quotient of two magnitudes, cut to three decimals
MulAbs(m, n) == (m \div Q) * n + ((m % Q) * n) \div Q
DivAbs(m, n) == (m \div n) * Q + ((m % n) * Q) \div n

FMul(a, b) ==
    IF a = NaN \/ b = NaN THEN NaN
    ELSE IF ~Finite(a) \/ ~Finite(b)
         THEN (IF a = 0 \/ b = 0 THEN NaN
               ELSE IF (a > 0) = (b > 0) THEN PInf ELSE NInf)
    ELSE IF (a >= 0) = (b >= 0) THEN MulAbs(Abs(a), Abs(b))
    ELSE -MulAbs(Abs(a), Abs(b))

FDiv(a, b) ==
    IF a = NaN \/ b = NaN THEN NaN
    ELSE IF ~Finite(a) THEN (IF ~Finite(b) THEN NaN
                             ELSE IF (a > 0) = (b >= 0) THEN PInf ELSE NInf)
    ELSE IF ~Finite(b) THEN 0
    ELSE IF b = 0 THEN (IF a = 0 THEN NaN ELSE IF a > 0 THEN PInf ELSE NInf)
    ELSE IF (a >= 0) = (b >= 0) THEN DivAbs(Abs(a), Abs(b))
    ELSE -DivAbs(Abs(a), Abs(b))

FMin(a, b) == IF a = NaN \/ b = NaN THEN NaN ELSE IF a < b THEN a ELSE b
FMax(a, b) == IF a = NaN \/ b = NaN THEN NaN ELSE IF a > b THEN a ELSE b
FAbs(a) == IF a = NaN THEN NaN ELSE Abs(a)
FSign(a) == IF a = NaN THEN NaN ELSE Sgn(a) * Q

RECURSIVE SqrtIter(_, _, _)
SqrtIter(n, lo, hi) ==
    IF lo >= hi THEN lo
    ELSE LET mid == (lo + hi + 1) \div 2
         IN  IF mid * mid <= n THEN SqrtIter(n, mid, hi)
             ELSE SqrtIter(n, lo, mid - 1)

\* Math.sqrt of a * a + b * b, for fixed-point a and b
Hypot(a, b) ==
    IF a = NaN \/ b = NaN THEN NaN
    ELSE IF ~Finite(a) \/ ~Finite(b) THEN PInf
    ELSE SqrtIter(a * a + b * b, 0, 46340)

\* util.clamp
clamp(v, min, max) ==
    IF FLt(v, min) THEN min
    ELSE IF FGt(v, max) THEN max
    ELSE v

-----------------------------------------------------------------------------
(* Vector *)

Vec(x, y) == [x |-> x, y |-> y]
Zero == Vec(0, 0)

add(a, b) == Vec(FAdd(a.x, b.x), FAdd(a.y, b.y))
sub(a, b) == Vec(FSub(a.x, b.x), FSub(a.y, b.y))
scalar(a, s) == Vec(FMul(a.x, s), FMul(a.y, s))
dot(a, b) == FAdd(FMul(a.x, b.x), FMul(a.y, b.y))
cross(a, b) == FSub(FMul(a.x, b.y), FMul(a.y, b.x))
lengthSquared(a) == FAdd(FMul(a.x, a.x), FMul(a.y, a.y))
length(a) == Hypot(a.x, a.y)
perp(a) == Vec(FNeg(a.y), a.x)
normalize(a) ==
    LET Scaled(l) == Vec(FDiv(a.x, l), FDiv(a.y, l))
    IN  Scaled(length(a))

\* Vector.direction returns an angle in (-pi/2, pi/2]; the model keeps its
\* tangent, which is the same angle under another name: atan is one-to-one, and
\* pi/2 is the angle whose tangent is PInf.
direction(a) == IF FEq(a.x, 0) THEN PInf ELSE FDiv(a.y, a.x)

\* Math.sin and Math.cos: the angle is reduced to the nearest quarter turn and
\* the rest, at most pi/4 in size, goes through the Taylor polynomial, which is
\* exact to the three decimals kept.
HalfPi == 1571
QuarterTurns(angle) == (angle + HalfPi \div 2) \div HalfPi
Rest(angle) == angle - QuarterTurns(angle) * HalfPi
SinRest(r) ==
    LET SinPoly(r2, r3) == r - FDiv(r3, 6 * Q) + FDiv(FMul(r3, r2), 120 * Q)
    IN  SinPoly(FMul(r, r), FMul(FMul(r, r), r))
CosRest(r) ==
    LET CosPoly(r2) == Q - FDiv(r2, 2 * Q) + FDiv(FMul(r2, r2), 24 * Q)
    IN  CosPoly(FMul(r, r))
\* the sine of k quarter turns plus r
SinAt(k, r) ==
    IF k = 0 THEN SinRest(r)
    ELSE IF k = 1 THEN CosRest(r)
    ELSE IF k = 2 THEN -SinRest(r)
    ELSE -CosRest(r)
Sin(angle) ==
    IF ~Finite(angle) THEN NaN ELSE SinAt(QuarterTurns(angle) % 4, Rest(angle))
Cos(angle) ==
    IF ~Finite(angle) THEN NaN
    ELSE SinAt((QuarterTurns(angle) + 1) % 4, Rest(angle))

\* the vector a turned by the angle of sine sin and cosine cos
Turn(a, sin, cos) ==
    Vec(FSub(FMul(a.x, cos), FMul(a.y, sin)),
        FAdd(FMul(a.x, sin), FMul(a.y, cos)))

rotate(a, angle) == Turn(a, Sin(angle), Cos(angle))

-----------------------------------------------------------------------------
(* Bounds *)

RECURSIVE MinOf(_, _, _)
MinOf(s, i, m) ==
    IF i > Len(s) THEN m
    ELSE MinOf(s, i + 1, IF FLt(s[i], m) THEN s[i] ELSE m)

RECURSIVE MaxOf(_, _, _)
MaxOf(s, i, m) ==
    IF i > Len(s) THEN m
    ELSE MaxOf(s, i + 1, IF FGt(s[i], m) THEN s[i] ELSE m)

Xs(vertices) == [i \in 1..Len(vertices) |-> vertices[i].x]
Ys(vertices) == [i \in 1..Len(vertices) |-> vertices[i].y]

fromVertices(vertices) ==
    [min |-> Vec(MinOf(Xs(vertices), 1, PInf), MinOf(Ys(vertices), 1, PInf)),
     max |-> Vec(MaxOf(Xs(vertices), 1, NInf), MaxOf(Ys(vertices), 1, NInf))]

translate(bounds, delta) ==
    [min |-> add(bounds.min, delta), max |-> add(bounds.max, delta)]

\* A Vector has no property X: v.X is undefined, and a comparison converts
\* undefined to NaN.
UpperX(v) == NaN

overlap(a, b) ==
    ~(FLt(a.max.x, b.min.x) \/ FGt(UpperX(a.min), UpperX(b.max)) \/
      FLt(a.max.y, b.min.y) \/ FGt(a.min.y, b.max.y))

-----------------------------------------------------------------------------
(* Vertices *)

\* j = i - 1, cyclically, as the loops of area and contains keep it
Prev(i, n) == IF i = 1 THEN n ELSE i - 1
Next1(i, n) == IF i = n THEN 1 ELSE i + 1

RECURSIVE AreaSum(_, _)
AreaSum(v, i) ==
    IF i > Len(v) THEN 0
    ELSE LET j == Prev(i, Len(v))
         IN  FAdd(FMul(FSub(v[j].x, v[i].x), FAdd(v[j].y, v[i].y)),
                  AreaSum(v, i + 1))

area(vertices, signed) ==
    IF Len(vertices) = 0 THEN 0
    ELSE LET a == AreaSum(vertices, 1)
         IN  FDiv(IF signed THEN a ELSE FAbs(a), 2 * Q)

RECURSIVE ContainsFrom(_, _, _, _)
ContainsFrom(v, point, i, c) ==
    IF i > Len(v) THEN c
    ELSE LET j == Prev(i, Len(v))
             hit == /\ FGt(v[i].y, point.y) # FGt(v[j].y, point.y)
                    /\ FLt(point.x,
                           FAdd(FDiv(FMul(FSub(v[j].x, v[i].x),
                                          FSub(point.y, v[i].y)),
                                     FSub(v[j].y, v[i].y)),
                                v[i].x))
         IN  ContainsFrom(v, point, i + 1, IF hit THEN ~c ELSE c)

contains(vertices, point) == ContainsFrom(vertices, point, 1, FALSE)

\* Vertices.rotate works in place; the model returns the rotated array.
rotateVertices(vertices, angle, point) ==
    LET TurnAll(sin, cos) ==
            [i \in 1..Len(vertices) |->
                add(point, Turn(sub(vertices[i], point), sin, cos))]
    IN  IF FEq(angle, 0) THEN vertices
        ELSE TurnAll(Sin(angle), Cos(angle))

\* The loops of centroid and inertia start with i = j = 0 and then set
\* j = (i + 1) % n after i++: the index pairs visited, counted from 1.
LoopPairs(n) ==
    [k \in 1..n |-> IF k = 1 THEN <<1, 1>> ELSE <<k, (k % n) + 1>>]

RECURSIVE CentroidSum(_, _, _)
CentroidSum(v, k, center) ==
    LET \* one pass of centroid's loop, for the vertices vi and vj
        CentroidTerm(vi, vj) == add(scalar(add(vi, vj), cross(vi, vj)), center)
    IN  IF k > Len(v) THEN center
        ELSE CentroidSum(v, k + 1,
                 CentroidTerm(v[LoopPairs(Len(v))[k][1]],
                              v[LoopPairs(Len(v))[k][2]]))

centroid(vertices) ==
    scalar(CentroidSum(vertices, 1, Zero),
           FDiv(Q, FMul(6 * Q, area(vertices, TRUE))))

RECURSIVE InertiaSums(_, _, _)
InertiaSums(v, k, sums) ==
    LET \* one pass of inertia's loop: the two sums after the vertices vi and vj
        InertiaTerm(vi, vj, c) ==
            << FAdd(sums[1],
                    FAdd(FAdd(FMul(c, dot(vj, vj)), dot(vj, vi)), dot(vi, vi))),
               FAdd(sums[2], c) >>
    IN  IF k > Len(v) THEN sums
        ELSE InertiaSums(v, k + 1,
                 InertiaTerm(v[LoopPairs(Len(v))[k][1]], v[LoopPairs(Len(v))[k][2]],
                             FAbs(cross(v[LoopPairs(Len(v))[k][2]],
                                        v[LoopPairs(Len(v))[k][1]]))))

inertia(vertices, mass, c) ==
    LET Ratio(s) == FDiv(s[1], s[2])
    IN  FMul(FDiv(mass, 6 * Q),
             Ratio(InertiaSums([i \in 1..Len(vertices) |->
                                   add(vertices[i], Vec(FNeg(c.x), FNeg(c.y)))],
                               1, <<0, 0>>)))

-----------------------------------------------------------------------------
(* Body *)

\* The defaults of the constructor's option bag.
DefaultOptions ==
    [vertices |-> <<>>, position |-> Zero, previousPosition |-> Zero,
     velocity |-> Zero, force |-> Zero, angularVelocity |-> 0, angle |-> 0,
     previousAngle |-> 0, torque |-> 0, density |-> 1, isStatic |-> FALSE,
     slop |-> 50, restitution |-> 500, friction |-> 100, frictionAir |-> 10]

\* extend(defaults, options)
extend(defaults, opts) == opts @@ defaults

\* A body before its constructor has set anything.  A property read before it
\* is set is undefined, and the setters read undefined as (0, 0), 0 or "no
\* vertices"; the engine and the solver read their own undefined fields
\* (motion, sleepCounter, totalContacts, positionImpulse) as 0 and (0, 0).
Blank ==
    [vertices |-> <<>>, position |-> Zero, previousPosition |-> Zero,
     velocity |-> Zero, force |-> Zero, angularVelocity |-> 0, angle |-> 0,
     previousAngle |-> 0, torque |-> 0, density |-> 0, isStatic |-> FALSE,
     slop |-> 0, restitution |-> 0, friction |-> 0, frictionAir |-> 0,
     area |-> 0, mass |-> 0, invMass |-> 0, inertia |-> 0, invInertia |-> 0,
     bounds |-> [min |-> Zero, max |-> Zero], axes |-> <<>>, centroid |-> Zero,
     isSleeping |-> FALSE, motion |-> 0, sleepCounter |-> 0,
     totalContacts |-> 0, positionImpulse |-> Zero]

\* a vertices setter that keeps the axis of every edge
everyAxis(axes, i, kept) == axes

\* the Map of the vertices setter: the first axis of every direction
RECURSIVE UniqueAxes(_, _, _)
UniqueAxes(axes, i, kept) ==
    IF i > Len(axes) THEN kept
    ELSE IF \E k \in 1..Len(kept) : direction(kept[k]) = direction(axes[i])
         THEN UniqueAxes(axes, i + 1, kept)
         ELSE UniqueAxes(axes, i + 1, Append(kept, axes[i]))

EdgeNormals(v) ==
    [i \in 1..Len(v) |-> normalize(perp(sub(v[Next1(i, Len(v))], v[i])))]

\* set vertices(vertices): the vertices are made absolute, and from them come
\* the area a, the mass, the centroid c and the inertia i
setVertices(b, relative) ==
    LET Derived(vertices, a, mass, c, i) ==
            [b EXCEPT !.area = a,
                      !.mass = mass,
                      !.invMass = FDiv(Q, mass),
                      !.bounds = fromVertices(vertices),
                      !.axes = UniqueAxes(EdgeNormals(vertices), 1, <<>>),
                      !.centroid = c,
                      !.inertia = i,
                      !.invInertia = FDiv(Q, i),
                      !.vertices = vertices]
        Weighed(vertices, a, mass, c) ==
            Derived(vertices, a, mass, c, inertia(vertices, mass, c))
        Measured(vertices, a) ==
            Weighed(vertices, a, FMul(b.density, a), centroid(vertices))
        Placed(vertices) == Measured(vertices, area(vertices, FALSE))
    IN  Placed([i \in 1..Len(relative) |-> add(relative[i], b.position)])

\* a setter that stores the position and moves nothing else
jumpPosition(b, p) == [b EXCEPT !.position = p]

\* set position(p)
setPosition(b, p) ==
    LET Shifted(delta) ==
            [b EXCEPT !.vertices = [i \in 1..Len(@) |-> add(@[i], delta)],
                      !.previousPosition = add(@, delta),
                      !.position = p]
    IN  Shifted(sub(p, b.position))

\* set angle(v)
setAngle(b, v) ==
    LET \* the body with its vertices replaced by the rotated vertices vs
        Rotated(vs, by) ==
            [b EXCEPT !.vertices = vs,
                      !.axes = [i \in 1..Len(@) |-> rotate(@[i], by)],
                      !.bounds = fromVertices(vs)]
        Angled(deltaAngle) ==
            [(IF FNe(deltaAngle, 0)
              THEN Rotated(rotateVertices(b.vertices, deltaAngle, b.position),
                           deltaAngle)
              ELSE b)
             EXCEPT !.previousAngle = FAdd(@, deltaAngle), !.angle = v]
    IN  Angled(FSub(v, b.angle))

setIsStatic(b, v) ==
    IF v THEN [b EXCEPT !.isStatic = v, !.mass = PInf, !.invMass = 0]
    ELSE LET mass == FMul(b.density, b.area)
         IN  [b EXCEPT !.isStatic = v, !.mass = mass, !.invMass = FDiv(Q, mass)]

\* One "this[k] = options[k]" of the constructor's loop.
Assign(b, k, v) ==
    IF k = "position" THEN setPosition(b, v)
    ELSE IF k = "vertices" THEN setVertices(b, v)
    ELSE IF k = "angle" THEN setAngle(b, v)
    ELSE IF k = "isStatic" THEN setIsStatic(b, v)
    ELSE [b EXCEPT ![k] = v]

order ==
    <<"previousPosition", "previousAngle", "density", "position", "vertices",
      "velocity", "force", "isStatic", "angularVelocity", "angle", "torque",
      "slop", "restitution", "friction", "frictionAir",
      "area", "mass", "inertia", "invMass", "invInertia", "bounds">>

RECURSIVE AssignAll(_, _, _)
AssignAll(b, opts, i) ==
    IF i > Len(order) THEN b
    ELSE IF order[i] \in DOMAIN opts
         THEN AssignAll(Assign(b, order[i], opts[order[i]]), opts, i + 1)
         ELSE AssignAll(b, opts, i + 1)

\* new Body(options)
Body(opts) ==
    [AssignAll(Blank, extend(DefaultOptions, opts), 1) EXCEPT !.isSleeping = FALSE]

\* a test that lets a sleeping body update
awakeOrNot(b) == ~b.isStatic

\* a getter that lets every body be integrated and pushed
alwaysUpdate(b) == TRUE
shouldUpdate(b) == ~(b.isStatic \/ b.isSleeping)

\* an update that leaves the body where it is
stay(b, d) == b

\* Body.update(dt)
update(b, d) ==
    LET \* the end of Body.update: the velocities and the vertices are known
        Advanced(velocity, angularVelocity, vertices) ==
            [b EXCEPT
                !.velocity = velocity,
                !.angularVelocity = angularVelocity,
                !.previousAngle = b.angle,
                !.angle = FAdd(b.angle, angularVelocity),
                !.vertices = vertices,
                !.bounds = IF angularVelocity = 0 THEN translate(b.bounds, velocity)
                           ELSE fromVertices(vertices),
                !.axes = IF angularVelocity = 0 THEN @
                         ELSE [i \in 1..Len(@) |-> rotate(@[i], angularVelocity)],
                !.previousPosition = b.position,
                !.position = add(b.position, velocity)]
        \* the vertices move by the velocity and then turn about the old position
        Carried(velocity, angularVelocity) ==
            Advanced(velocity, angularVelocity,
                     IF angularVelocity = 0
                     THEN [i \in 1..Len(b.vertices) |-> add(b.vertices[i], velocity)]
                     ELSE rotateVertices(
                              [i \in 1..Len(b.vertices) |->
                                  add(b.vertices[i], velocity)],
                              angularVelocity, b.position))
        \* Verlet integration with the two corrections of the time step
        Verlet(prevVelocity, correction1, correction2, frictionAir) ==
            Carried(
                Vec(FAdd(FMul(FMul(prevVelocity.x, frictionAir), correction1),
                         FMul(FDiv(b.force.x, b.mass), correction2)),
                    FAdd(FMul(FMul(prevVelocity.y, frictionAir), correction1),
                         FMul(FDiv(b.force.y, b.mass), correction2))),
                FAdd(FMul(FMul(FSub(b.angle, b.previousAngle), frictionAir),
                          correction1),
                     FMul(FDiv(b.torque, b.inertia), correction2)))
    IN  IF ~shouldUpdate(b) THEN b
        ELSE Verlet(sub(b.position, b.previousPosition),
                    FDiv(d.delta, d.lastDelta),
                    FMul(FMul(Q \div 2, d.delta), FAdd(d.delta, d.lastDelta)),
                    FSub(Q, b.frictionAir))

\* BodyFactory.rect(x, y, width, height, options)
rect(x, y, width, height, opts) ==
    LET Halved(halfWidth, halfHeight) ==
            Body(extend(
                [position |-> Vec(FAdd(x, halfWidth), FAdd(y, halfHeight)),
                 vertices |-> << Vec(FNeg(halfWidth), FNeg(halfHeight)),
                                 Vec(halfWidth, FNeg(halfHeight)),
                                 Vec(halfWidth, halfHeight),
                                 Vec(FNeg(halfWidth), halfHeight) >>],
                opts))
    IN  Halved(FDiv(width, 2 * Q), FDiv(height, 2 * Q))

-----------------------------------------------------------------------------
(* Collision: the SAT test *)

RESTING_THRESH == 6000

\* x || 0 for a number: undefined, NaN and 0 give 0
OrZero(a) == IF a = NaN THEN 0 ELSE a

projectToAxis(vertices, axis) ==
    LET Extent(p) == [min |-> MinOf(p, 1, PInf), max |-> MaxOf(p, 1, NInf)]
    IN  Extent([i \in 1..Len(vertices) |-> dot(vertices[i], axis)])

\* An axis that was never stored is undefined.
NoAxis == Vec(NaN, NaN)

\* the loop of overlapAxes from the axis number i on
RECURSIVE OverlapFrom(_, _, _, _, _)
OverlapFrom(vertices1, vertices2, axes, i, result) ==
    LET \* the overlap of two projections
        Shared(interval1, interval2) ==
            FMin(FSub(interval1.max, interval2.min),
                 FSub(interval2.max, interval1.min))
        \* the result so far, after an axis on which the projections overlap by o
        Least(o) ==
            IF FLt(o, result.overlap)
            THEN [null |-> FALSE, overlap |-> o, axis |-> axes[i]]
            ELSE result
        \* the rest of the loop, o being the overlap on the axis number i
        OverlapNext(o) ==
            IF FLe(o, 0) THEN [null |-> TRUE, overlap |-> 0, axis |-> NoAxis]
            ELSE OverlapFrom(vertices1, vertices2, axes, i + 1, Least(o))
    IN  IF i > Len(axes) THEN result
        ELSE OverlapNext(Shared(projectToAxis(vertices1, axes[i]),
                                projectToAxis(vertices2, axes[i])))

overlapAxes(vertices1, vertices2, axes) ==
    OverlapFrom(vertices1, vertices2, axes, 1,
                [null |-> FALSE, overlap |-> PInf, axis |-> NoAxis])

\* -vertex.sub(target).dot(normal)
Projection(vertex, target, normal) == FNeg(dot(sub(vertex, target), normal))

RECURSIVE NearestFrom(_, _, _, _, _)
NearestFrom(target, vertices, normal, i, best) ==
    IF i > Len(vertices) THEN best
    ELSE NearestFrom(target, vertices, normal, i + 1,
                     IF FLt(Projection(vertices[i], target, normal),
                            Projection(vertices[best], target, normal))
                     THEN i ELSE best)

twoNearestVertices(target, vertices, normal) ==
    LET \* the nearest vertex and the nearer of its two neighbours
        WithNeighbour(vertex1, vertex2, vertex3) ==
            << vertices[vertex1],
               vertices[IF FLt(Projection(vertices[vertex2], target, normal),
                               Projection(vertices[vertex3], target, normal))
                        THEN vertex2 ELSE vertex3] >>
        Neighbours(vertex1) ==
            WithNeighbour(vertex1, Prev(vertex1, Len(vertices)),
                          Next1(vertex1, Len(vertices)))
    IN  Neighbours(NearestFrom(target, vertices, normal, 2, 1))

Contact(v) == [vertex |-> v, normalImpulse |-> 0, tangentImpulse |-> 0]

\* Collision.test(body1, body2), without the fields body1 and body2
test(body1, body2) ==
    LET \* result.contacts.push({ vertex }) when the body's vertices contain it
        PushIfIn(contacts, vertices, vertex) ==
            IF contains(vertices, vertex) THEN Append(contacts, Contact(vertex))
            ELSE contacts
        \* the same, when fewer than two contacts are stored
        PushIfRoom(contacts, vertices, vertex) ==
            IF Len(contacts) < 2 THEN PushIfIn(contacts, vertices, vertex)
            ELSE contacts
        \* the contacts of body2's side, tried when body1's side gave fewer than two
        Second(contacts, body2Contacts) ==
            IF Len(contacts) < 2
            THEN PushIfRoom(PushIfIn(contacts, body2.vertices, body2Contacts[1]),
                            body2.vertices, body2Contacts[2])
            ELSE contacts
        First(body1Contacts) ==
            PushIfIn(PushIfIn(<<>>, body1.vertices, body1Contacts[1]),
                     body1.vertices, body1Contacts[2])
        \* the result of a collision of the given depth and normal
        Colliding(depth, normal) ==
            [colliding |-> TRUE,
             depth |-> depth,
             normal |-> normal,
             tangent |-> perp(normal),
             penetrationVector |-> scalar(normal, depth),
             contacts |->
                 Second(First(twoNearestVertices(body1.position, body2.vertices,
                                                 normal)),
                        twoNearestVertices(body2.position, body1.vertices,
                                           scalar(normal, -Q))),
             slop |-> FMax(body1.slop, body2.slop),
             restitution |-> FMax(body1.restitution, body2.restitution),
             friction |-> FMin(body1.friction, body2.friction),
             separation |-> NaN]
        \* the normal is the axis, turned so that it does not point from body1
        \* to body2
        Facing(least) ==
            Colliding(least.overlap,
                      IF FGt(dot(least.axis, sub(body2.position, body1.position)), 0)
                      THEN scalar(least.axis, -Q)
                      ELSE least.axis)
        Tested(overlapAB, overlapBA) ==
            IF overlapAB.null THEN [colliding |-> FALSE]
            ELSE IF overlapBA.null THEN [colliding |-> FALSE]
            ELSE Facing(IF FLt(overlapAB.overlap, overlapBA.overlap)
                        THEN overlapAB ELSE overlapBA)
    IN  Tested(overlapAxes(body1.vertices, body2.vertices, body1.axes),
               overlapAxes(body2.vertices, body1.vertices, body2.axes))

-----------------------------------------------------------------------------
(* Collision: the position and velocity solvers.  A collision names its    *)
(* bodies by their index in the body list bs; every solver returns the     *)
(* bodies, and the collisions when it writes to them.  totalContacts and   *)
(* sleepCounter are counts and are kept as plain integers.                 *)

RECURSIVE preSolvePosition(_, _, _)
preSolvePosition(bs, cs, k) ==
    IF k > Len(cs) THEN bs
    ELSE LET c == cs[k]
             b1 == [bs EXCEPT ![c.body1].totalContacts = @ + Len(c.contacts)]
             b2 == [b1 EXCEPT ![c.body2].totalContacts = @ + Len(c.contacts)]
         IN  preSolvePosition(b2, cs, k + 1)

\* first loop of solvePosition: the separation of every collision
Separation(bs, c) ==
    LET body1 == bs[c.body1]
        body2 == bs[c.body2]
        separation ==
            sub(add(body2.position, body2.positionImpulse),
                add(sub(body2.position, c.penetrationVector),
                    body1.positionImpulse))
    IN  dot(c.normal, separation)

\* second loop of solvePosition: the impulses
RECURSIVE Impulses(_, _, _)
Impulses(bs, cs, k) ==
    LET \* the separation less the slop, the separation doubled when a body
        \* stays put
        Excess(body1, body2, c) ==
            FSub(IF ~shouldUpdate(body1) \/ ~shouldUpdate(body2)
                 THEN FMul(c.separation, 2 * Q)
                 ELSE c.separation,
                 c.slop)
        \* normal * (separation - slop) * contactShare
        Share(normal, push, contactShare) ==
            Vec(FMul(FMul(normal.x, push), contactShare),
                FMul(FMul(normal.y, push), contactShare))
        PushFirst(before, c, push) ==
            IF shouldUpdate(before[c.body1])
            THEN [before EXCEPT ![c.body1].positionImpulse =
                    add(@, Share(c.normal, push,
                                 FDiv(Q, before[c.body1].totalContacts * Q)))]
            ELSE before
        PushSecond(before, c, push) ==
            IF shouldUpdate(before[c.body2])
            THEN [before EXCEPT ![c.body2].positionImpulse =
                    sub(@, Share(c.normal, push,
                                 FDiv(Q, before[c.body2].totalContacts * Q)))]
            ELSE before
        Pushed(c, push) == PushSecond(PushFirst(bs, c, push), c, push)
    IN  IF k > Len(cs) THEN bs
        ELSE IF FLt(cs[k].separation, 0) THEN Impulses(bs, cs, k + 1)
        ELSE Impulses(Pushed(cs[k], Excess(bs[cs[k].body1], bs[cs[k].body2], cs[k])),
                      cs, k + 1)

\* Collision.solvePosition(collisions): <<bodies, collisions>>
solvePosition(bs, cs) ==
    LET measured == [k \in 1..Len(cs) |->
                        [cs[k] EXCEPT !.separation = Separation(bs, cs[k])]]
    IN  <<Impulses(bs, measured, 1), measured>>

\* Collision.postSolvePosition(bodies)
postSolveBody(body) ==
    LET impulse == body.positionImpulse
    IN  IF FNe(impulse.x, 0) \/ FNe(impulse.y, 0)
        THEN [body EXCEPT
                !.totalContacts = 0,
                !.vertices = [i \in 1..Len(@) |-> add(@[i], impulse)],
                !.bounds = translate(@, impulse),
                !.position = add(@, impulse),
                !.previousPosition = add(@, impulse),
                !.positionImpulse = Zero]
        ELSE [body EXCEPT !.totalContacts = 0]

postSolvePosition(bs) == [i \in 1..Len(bs) |-> postSolveBody(bs[i])]

\* a solver that stores the impulses of a contact and applies none
storeOnly(bs, c, contact) ==
    <<bs, [contact EXCEPT !.normalImpulse = 0, !.tangentImpulse = 0]>>

\* One contact of one collision of solveVelocity: <<bodies, contact>>.
\* body1 and body2 already carry the velocities derived for this collision.
SolveContact(bs, c, contact) ==
    LET \* r.perp().scalar(body.angularVelocity).add(body.velocity)
        ContactVelocity(r, body) ==
            add(scalar(perp(r), body.angularVelocity), body.velocity)
        Denominator(body1, body2, r1crossN, r2crossN) ==
            FMul(FAdd(FAdd(FAdd(body1.invMass, body2.invMass),
                           FMul(FMul(body1.invInertia, r1crossN), r1crossN)),
                      FMul(FMul(body2.invInertia, r2crossN), r2crossN)),
                 Len(c.contacts) * Q)
        \* Math.abs(tangentVelocity) > friction * normalForce
        Slips(normalVelocity, tangentVelocity) ==
            FGt(FAbs(tangentVelocity),
                FMul(c.friction,
                     FMul(clamp(FAdd(c.separation, normalVelocity), 0, Q), 5 * Q)))
        \* the two tests of the resting collisions
        SeparatesFast(normalVelocity) ==
            /\ FLt(normalVelocity, 0)
            /\ FGt(FMul(normalVelocity, normalVelocity), RESTING_THRESH)
        SlidesFast(tangentVelocity) ==
            FGt(FMul(tangentVelocity, tangentVelocity), RESTING_THRESH)
        \* the impulse applied to the two bodies
        PullFirst(before, r1, totalImpulse) ==
            IF shouldUpdate(before[c.body1])
            THEN [before EXCEPT
                    ![c.body1].previousPosition =
                        add(@, scalar(totalImpulse, before[c.body1].invMass)),
                    ![c.body1].previousAngle =
                        FAdd(@, FMul(cross(r1, totalImpulse),
                                     before[c.body1].invInertia))]
            ELSE before
        PullSecond(before, r2, totalImpulse) ==
            IF shouldUpdate(before[c.body2])
            THEN [before EXCEPT
                    ![c.body2].previousPosition =
                        sub(@, scalar(totalImpulse, before[c.body2].invMass)),
                    ![c.body2].previousAngle =
                        FSub(@, FMul(cross(r2, totalImpulse),
                                     before[c.body2].invInertia))]
            ELSE before
        Applied(r1, r2, totalImpulse) ==
            PullSecond(PullFirst(bs, r1, totalImpulse), r2, totalImpulse)
        \* the impulses stored on the contact being known
        AtStored(r1, r2, normalVelocity, tangentVelocity,
                 normalImpulse, tangentImpulse, storedN, storedT) ==
            << Applied(r1, r2,
                   add(scalar(c.normal,
                              IF SeparatesFast(normalVelocity) THEN normalImpulse
                              ELSE FSub(storedN, OrZero(contact.normalImpulse))),
                       scalar(c.tangent,
                              IF SlidesFast(tangentVelocity) THEN tangentImpulse
                              ELSE FSub(storedT, OrZero(contact.tangentImpulse))))),
               [contact EXCEPT !.normalImpulse = storedN,
                               !.tangentImpulse = storedT] >>
        \* the impulses before the resting correction being known
        AtImpulses(r1, r2, normalVelocity, tangentVelocity,
                   normalImpulse, tangentImpulse, maxFriction) ==
            AtStored(r1, r2, normalVelocity, tangentVelocity,
                     normalImpulse, tangentImpulse,
                     IF SeparatesFast(normalVelocity) THEN 0
                     ELSE FMin(FAdd(OrZero(contact.normalImpulse), normalImpulse), 0),
                     IF SlidesFast(tangentVelocity) THEN 0
                     ELSE clamp(FAdd(OrZero(contact.tangentImpulse), tangentImpulse),
                                FNeg(maxFriction), maxFriction))
        \* the bound of the friction being known
        AtFriction(r1, r2, normalVelocity, tangentVelocity, denominator,
                   maxFriction) ==
            AtImpulses(r1, r2, normalVelocity, tangentVelocity,
                       FDiv(FMul(FAdd(Q, c.restitution), normalVelocity),
                            denominator),
                       FDiv(IF Slips(normalVelocity, tangentVelocity)
                            THEN clamp(FMul(c.friction, FSign(tangentVelocity)),
                                       FNeg(maxFriction), maxFriction)
                            ELSE tangentVelocity,
                            denominator),
                       maxFriction)
        \* the components of the relative velocity being known
        AtComponents(r1, r2, normalVelocity, tangentVelocity, denominator) ==
            AtFriction(r1, r2, normalVelocity, tangentVelocity, denominator,
                       IF Slips(normalVelocity, tangentVelocity)
                       THEN FAbs(tangentVelocity) ELSE PInf)
        \* the arms r1 and r2 of the contact point being known
        AtArms(r1, r2, relativeVelocity) ==
            AtComponents(r1, r2,
                         dot(relativeVelocity, c.normal),
                         dot(relativeVelocity, c.tangent),
                         Denominator(bs[c.body1], bs[c.body2],
                                     cross(r1, c.normal), cross(r2, c.normal)))
        Arms(r1, r2) ==
            AtArms(r1, r2, sub(ContactVelocity(r1, bs[c.body1]),
                               ContactVelocity(r2, bs[c.body2])))
    IN  Arms(sub(contact.vertex, bs[c.body1].position),
             sub(contact.vertex, bs[c.body2].position))

RECURSIVE SolveContacts(_, _, _)
SolveContacts(bs, c, i) ==
    LET \* the rest of the contacts, r being the outcome of the contact number i
        ContactsNext(r) ==
            SolveContacts(r[1], [c EXCEPT !.contacts[i] = r[2]], i + 1)
    IN  IF i > Len(c.contacts) THEN <<bs, c>>
        ELSE ContactsNext(SolveContact(bs, c, c.contacts[i]))

\* the update of the velocities at the head of solveVelocity's loop
Rederive(body) ==
    [body EXCEPT !.velocity = sub(body.position, body.previousPosition),
                 !.angularVelocity = FSub(body.angle, body.previousAngle)]

RECURSIVE SolveFrom(_, _, _)
SolveFrom(bs, cs, k) ==
    LET RederiveBoth(c) ==
            [bs EXCEPT ![c.body1] = Rederive(@), ![c.body2] = Rederive(@)]
        \* the rest of the collisions, r being the outcome of the collision
        \* number k
        CollisionsNext(r) == SolveFrom(r[1], [cs EXCEPT ![k] = r[2]], k + 1)
    IN  IF k > Len(cs) THEN <<bs, cs>>
        ELSE CollisionsNext(SolveContacts(RederiveBoth(cs[k]), cs[k], 1))

\* Collision.solveVelocity(collisions): <<bodies, collisions>>
solveVelocity(bs, cs) == SolveFrom(bs, cs, 1)

-----------------------------------------------------------------------------
(* Engine: sleeping *)

SLEEPING_MAX_COUNT == 60
SLEEPING_MAX_MOTION_FOR_SLEEP == 40
SLEEPING_MIN_MOTION_FOR_WAKEUP == 90

\* setSleeping(body, asleep) on body i of the world w = [bodies, emitted]
\* a setSleeping that only flips the flag and emits the event
flipSleeping(w, i, asleep) ==
    IF w.bodies[i].isSleeping = asleep THEN w
    ELSE [bodies |-> [w.bodies EXCEPT ![i].isSleeping = asleep],
          emitted |-> [w.emitted EXCEPT ![i] = Append(@, IF asleep THEN "sleepEnter" ELSE "sleepExit")]]
\* a setSleeping without the test of the present state
alwaysEmit(w, i, asleep) ==
    [bodies |-> [w.bodies EXCEPT
                   ![i].isSleeping = asleep,
                   ![i].previousPosition = IF asleep THEN w.bodies[i].position ELSE @,
                   ![i].previousAngle = IF asleep THEN w.bodies[i].angle ELSE @,
                   ![i].velocity = IF asleep THEN Zero ELSE @,
                   ![i].angularVelocity = IF asleep THEN 0 ELSE @,
                   ![i].motion = IF asleep THEN 0 ELSE @,
                   ![i].sleepCounter = IF asleep THEN @ ELSE 0],
     emitted |-> [w.emitted EXCEPT
                    ![i] = Append(@, IF asleep THEN "sleepEnter" ELSE "sleepExit")]]

setSleeping(w, i, asleep) ==
    IF w.bodies[i].isSleeping = asleep THEN w
    ELSE IF asleep
    THEN [bodies |-> [w.bodies EXCEPT
                        ![i].isSleeping = TRUE,
                        ![i].previousPosition = w.bodies[i].position,
                        ![i].previousAngle = w.bodies[i].angle,
                        ![i].velocity = Zero,
                        ![i].angularVelocity = 0,
                        ![i].motion = 0],
          emitted |-> [w.emitted EXCEPT ![i] = Append(@, "sleepEnter")]]
    ELSE [bodies |-> [w.bodies EXCEPT
                        ![i].isSleeping = FALSE,
                        ![i].sleepCounter = 0],
          emitted |-> [w.emitted EXCEPT ![i] = Append(@, "sleepExit")]]

Motion(b) == FAdd(lengthSquared(b.velocity), FMul(b.angularVelocity, b.angularVelocity))

HasForce(b) == FNe(b.force.x, 0) \/ FNe(b.force.y, 0) \/ FNe(b.torque, 0)

\* a sleep update that does not count: a body without force sleeps at once
hastySleep(w, i) ==
    setSleeping(w, i, ~HasForce(w.bodies[i]))

\* one pass of updateSleeping's loop
SleepStep(w, i) ==
    LET b == w.bodies[i]
    IN
    IF HasForce(b) THEN setSleeping(w, i, FALSE)
    ELSE
    LET motion == Motion(b)
        minMotion == FMin(b.motion, motion)
        maxMotion == FMax(b.motion, motion)
        smooth == FAdd(FMul(900, minMotion), FMul(100, maxMotion))
        calm == FLt(smooth, SLEEPING_MAX_MOTION_FOR_SLEEP)
        count == IF calm
                 THEN (IF b.sleepCounter + 1 < SLEEPING_MAX_COUNT
                       THEN b.sleepCounter + 1 ELSE SLEEPING_MAX_COUNT)
                 ELSE (IF b.sleepCounter > 0 THEN b.sleepCounter - 1
                       ELSE b.sleepCounter)
        w1 == [w EXCEPT !.bodies[i].motion = smooth,
                        !.bodies[i].sleepCounter = count]
    IN  IF calm /\ count >= SLEEPING_MAX_COUNT THEN setSleeping(w1, i, TRUE)
        ELSE w1

RECURSIVE SleepFrom(_, _)
SleepFrom(w, i) ==
    IF i > Len(w.bodies) THEN w ELSE SleepFrom(SleepStep(w, i), i + 1)

updateSleeping(w) == SleepFrom(w, 1)

RECURSIVE WakeFrom(_, _, _)
WakeFrom(w, cs, k) ==
    IF k > Len(cs) THEN w
    ELSE
    LET body1 == w.bodies[cs[k].body1]
        body2 == w.bodies[cs[k].body2]
    IN
    IF (body1.isSleeping /\ body2.isSleeping) \/ body1.isStatic \/ body2.isStatic
    THEN WakeFrom(w, cs, k + 1)
    ELSE
    LET awakeBody == IF body1.isSleeping THEN body2 ELSE body1
        asleepBody == IF body1.isSleeping THEN cs[k].body1 ELSE cs[k].body2
    IN  IF FGt(Motion(awakeBody), SLEEPING_MIN_MOTION_FOR_WAKEUP)
        THEN WakeFrom(setSleeping(w, asleepBody, FALSE), cs, k + 1)
        ELSE WakeFrom(w, cs, k + 1)

updateSleepingCollisions(w, cs) == WakeFrom(w, cs, 1)

-----------------------------------------------------------------------------
(* Engine.update, one action per phase.  pc is the phase to run next;      *)
(* "done" is the state in which update has just returned and "idle" the    *)
(* state before the first call or after user code has touched a body.      *)

MaxTicks == 62
MaxUserOps == 1
EarlyTicks == 1

\* the defaults of the Engine constructor
DefaultEngineOptions ==
    [positionIterations |-> 6, velocityIterations |-> 4,
     gravity |-> Vec(0, 1), enableSleeping |-> TRUE]

Entry(ev, body, arg) == [ev |-> ev, body |-> body, arg |-> arg]
Phase(name) == Entry(name, 0, <<>>)
Pairs(cs) == [k \in 1..Len(cs) |-> <<cs[k].body1, cs[k].body2>>]

Ids == 1..Len(bodies)

\* how many times body i has emitted sleepExit, and sleepEnter
Exits(i) == Len(SelectSeq(emitted[i], LAMBDA e : e = "sleepExit"))
Enters(i) == Len(SelectSeq(emitted[i], LAMBDA e : e = "sleepEnter"))

\* User code runs between two updates or in a preUpdate listener.  It acts
\* right after construction or once bodies have had the time to fall asleep.
UserMayAct ==
    used < MaxUserOps /\ (ticks < EarlyTicks \/ ticks >= SLEEPING_MAX_COUNT)

Apply(op, bs) ==
    IF op.kind = "force" THEN [bs EXCEPT ![op.body].force = op.value]
    ELSE IF op.kind = "torque" THEN [bs EXCEPT ![op.body].torque = op.value.x]
    ELSE [bs EXCEPT ![op.body] = setPosition(@, add(@.position, op.value))]

\* body.force = ..., body.torque = ... or body.position = ... between two updates
UserOp ==
    /\ pc \in {"idle", "done"}
    /\ ticks < MaxTicks
    /\ UserMayAct
    /\ \E op \in script :
          bodies' = Apply(op, bodies)
    /\ used' = used + 1
    /\ pc' = "idle"
    /\ UNCHANGED <<options, dt, script, collisionCandidates, collisions, log,
                   emitted, ticks, obs, fn>>

\* update(dt) is called: this.emit('preUpdate'), whose listener may set a
\* force or a torque
PreUpdate ==
    /\ pc \in {"idle", "done"}
    /\ ticks < MaxTicks
    /\ \/ /\ UNCHANGED <<bodies, used>>
       \/ /\ UserMayAct
          /\ \E op \in {o \in script : o.kind # "position"} :
                bodies' = Apply(op, bodies)
          /\ used' = used + 1
    /\ log' = <<Phase("preUpdate")>>
    /\ obs' = [start |-> bodies, entry |-> bodies', exits |-> [i \in Ids |-> Exits(i)],
               integrated |-> {}, atWake |-> <<>>]
    /\ collisionCandidates' = <<>>
    /\ collisions' = <<>>
    /\ pc' = "sleep"
    /\ UNCHANGED <<options, dt, script, emitted, ticks, fn>>

\* if (options.enableSleeping) updateSleeping(this.bodies)
SleepUpdate ==
    /\ pc = "sleep"
    /\ IF options.enableSleeping
       THEN LET w == updateSleeping([bodies |-> bodies, emitted |-> emitted])
            IN  /\ bodies' = w.bodies
                /\ emitted' = w.emitted
                /\ log' = Append(log, Phase("updateSleeping"))
       ELSE UNCHANGED <<bodies, emitted, log>>
    /\ pc' = "gravity"
    /\ UNCHANGED <<options, dt, script, used, collisionCandidates, collisions,
                   ticks, obs, fn>>

\* b.force = b.force.add(options.gravity.scalar(b.mass))
applyGravity(b, gravity) == [b EXCEPT !.force = add(@, scalar(gravity, b.mass))]

Gravity ==
    /\ pc = "gravity"
    /\ bodies' = [i \in Ids |-> applyGravity(bodies[i], options.gravity)]
    /\ log' = Append(log, Phase("gravity"))
    /\ pc' = "integrate"
    /\ UNCHANGED <<options, dt, script, used, collisionCandidates, collisions,
                   emitted, ticks, obs, fn>>

\* if (b.shouldUpdate) b.update(dt)
Integrate ==
    /\ pc = "integrate"
    /\ bodies' = [i \in Ids |-> IF shouldUpdate(bodies[i])
                                THEN update(bodies[i], dt) ELSE bodies[i]]
    /\ obs' = [obs EXCEPT !.integrated = {i \in Ids : shouldUpdate(bodies[i])}]
    /\ log' = Append(log, Phase("integrate"))
    /\ pc' = "broad"
    /\ UNCHANGED <<options, dt, script, used, collisionCandidates, collisions,
                   emitted, ticks, fn>>

\* the two loops without the search for the pair already found
RECURSIVE bothOrders(_, _, _, _)
bothOrders(bs, i, j, found) ==
    IF i > Len(bs) THEN found
    ELSE IF j > Len(bs) THEN bothOrders(bs, i + 1, 1, found)
    ELSE IF i # j /\ overlap(bs[i].bounds, bs[j].bounds)
            /\ (shouldUpdate(bs[i]) \/ shouldUpdate(bs[j]))
         THEN bothOrders(bs, i, j + 1, Append(found, <<i, j>>))
         ELSE bothOrders(bs, i, j + 1, found)

\* the two nested loops of the broad phase, from the pair (i, j) on
RECURSIVE BroadFrom(_, _, _, _)
BroadFrom(bs, i, j, found) ==
    IF i > Len(bs) THEN found
    ELSE IF j > Len(bs) THEN BroadFrom(bs, i + 1, 1, found)
    ELSE IF i # j /\ overlap(bs[i].bounds, bs[j].bounds)
            /\ (shouldUpdate(bs[i]) \/ shouldUpdate(bs[j]))
            /\ ~\E k \in 1..Len(found) : found[k] = <<j, i>> \/ found[k] = <<i, j>>
         THEN BroadFrom(bs, i, j + 1, Append(found, <<i, j>>))
         ELSE BroadFrom(bs, i, j + 1, found)

broadPhase(bs) == BroadFrom(bs, 1, 1, <<>>)

BroadPhase ==
    /\ pc = "broad"
    /\ collisionCandidates' = broadPhase(bodies)
    /\ log' = Append(log, Phase("broadPhase"))
    /\ pc' = "narrow"
    /\ UNCHANGED <<bodies, options, dt, script, used, collisions, emitted,
                   ticks, obs, fn>>

RECURSIVE NarrowFrom(_, _, _, _)
NarrowFrom(bs, pairs, k, found) ==
    IF k > Len(pairs) THEN found
    ELSE LET collisionData == test(bs[pairs[k][1]], bs[pairs[k][2]])
         IN  IF collisionData.colliding
             THEN NarrowFrom(bs, pairs, k + 1,
                      Append(found, [body1 |-> pairs[k][1], body2 |-> pairs[k][2]]
                                    @@ collisionData))
             ELSE NarrowFrom(bs, pairs, k + 1, found)

narrowPhase(bs, pairs) == NarrowFrom(bs, pairs, 1, <<>>)

NarrowPhase ==
    /\ pc = "narrow"
    /\ collisions' = narrowPhase(bodies, collisionCandidates)
    /\ log' = Append(log, Phase("narrowPhase"))
    /\ pc' = "wake"
    /\ UNCHANGED <<bodies, options, dt, script, used, collisionCandidates,
                   emitted, ticks, obs, fn>>

\* if (options.enableSleeping) updateSleepingCollisions(collisions)
SleepWake ==
    /\ pc = "wake"
    /\ IF options.enableSleeping
       THEN LET w == updateSleepingCollisions(
                         [bodies |-> bodies, emitted |-> emitted], collisions)
            IN  /\ bodies' = w.bodies
                /\ emitted' = w.emitted
                /\ log' = Append(log, Phase("updateSleepingCollisions"))
       ELSE UNCHANGED <<bodies, emitted, log>>
    /\ obs' = [obs EXCEPT !.atWake = bodies]
    /\ pc' = "position"
    /\ UNCHANGED <<options, dt, script, used, collisionCandidates, collisions,
                   ticks, fn>>

RECURSIVE Times(_, _)
Times(x, n) == IF n <= 0 THEN <<>> ELSE <<x>> \o Times(x, n - 1)

RECURSIVE PositionIterations(_, _, _)
PositionIterations(bs, cs, n) ==
    IF n <= 0 THEN <<bs, cs>>
    ELSE LET r == solvePosition(bs, cs) IN PositionIterations(r[1], r[2], n - 1)

\* preSolvePosition and the loop of solvePosition
SolvePositions ==
    /\ pc = "position"
    /\ LET r == PositionIterations(preSolvePosition(bodies, collisions, 1),
                                   collisions, options.positionIterations)
       IN  /\ bodies' = r[1]
           /\ collisions' = r[2]
    /\ log' = log \o <<Phase("preSolvePosition")>>
                  \o Times(Phase("solvePosition"), options.positionIterations)
    /\ pc' = "postSolve"
    /\ UNCHANGED <<options, dt, script, used, collisionCandidates, emitted,
                   ticks, obs, fn>>

PostSolve ==
    /\ pc = "postSolve"
    /\ bodies' = postSolvePosition(bodies)
    /\ log' = Append(log, Phase("postSolvePosition"))
    /\ pc' = "velocity"
    /\ UNCHANGED <<options, dt, script, used, collisionCandidates, collisions,
                   emitted, ticks, obs, fn>>

RECURSIVE VelocityIterations(_, _, _)
VelocityIterations(bs, cs, n) ==
    IF n <= 0 THEN <<bs, cs>>
    ELSE LET r == solveVelocity(bs, cs) IN VelocityIterations(r[1], r[2], n - 1)

SolveVelocities ==
    /\ pc = "velocity"
    /\ LET r == VelocityIterations(bodies, collisions, options.velocityIterations)
       IN  /\ bodies' = r[1]
           /\ collisions' = r[2]
    /\ log' = log \o Times(Phase("solveVelocity"), options.velocityIterations)
    /\ pc' = "events"
    /\ UNCHANGED <<options, dt, script, used, collisionCandidates, emitted,
                   ticks, obs, fn>>

\* the collision events with body2 served before body1
RECURSIVE SwappedEntries(_, _)
SwappedEntries(cs, k) ==
    IF k > Len(cs) THEN <<>>
    ELSE << Entry("collision", cs[k].body2, <<<<cs[k].body1, cs[k].body2>>>>),
            Entry("collision", cs[k].body1, <<<<cs[k].body1, cs[k].body2>>>>) >>
         \o SwappedEntries(cs, k + 1)

RECURSIVE CollisionEntries(_, _)
CollisionEntries(cs, k) ==
    IF k > Len(cs) THEN <<>>
    ELSE << Entry("collision", cs[k].body1, <<<<cs[k].body1, cs[k].body2>>>>),
            Entry("collision", cs[k].body2, <<<<cs[k].body1, cs[k].body2>>>>) >>
         \o CollisionEntries(cs, k + 1)

\* c.body1.emit('collision', c); c.body2.emit('collision', c)
CollisionEvents ==
    /\ pc = "events"
    /\ log' = log \o CollisionEntries(collisions, 1)
    /\ pc' = "reset"
    /\ UNCHANGED <<bodies, options, dt, script, used, collisionCandidates,
                   collisions, emitted, ticks, obs, fn>>

\* a reset that forgets to clear anything
keepForce(b) == b
resetForce(b) == [b EXCEPT !.force = Zero, !.torque = 0]

ForceReset ==
    /\ pc = "reset"
    /\ bodies' = [i \in Ids |-> resetForce(bodies[i])]
    /\ log' = Append(log, Phase("resetForces"))
    /\ pc' = "emit"
    /\ UNCHANGED <<options, dt, script, used, collisionCandidates, collisions,
                   emitted, ticks, obs, fn>>

\* this.emit('update', collisions), and update returns
EmitUpdate ==
    /\ pc = "emit"
    /\ log' = Append(log, Entry("update", 0, Pairs(collisions)))
    /\ ticks' = ticks + 1
    /\ pc' = "done"
    /\ UNCHANGED <<bodies, options, dt, script, used, collisionCandidates,
                   collisions, emitted, obs, fn>>

-----------------------------------------------------------------------------
(* The worlds the engine is run on.  Lengths are in thousandths of a       *)
(* pixel.  Every body overrides its moment of inertia so that contacts do  *)
(* not turn it, has unit density and no air friction.                      *)

Rigid == [inertia |-> PInf, invInertia |-> 0, density |-> Q, frictionAir |-> 0]

\* The constructor's position setter shifts previousPosition by the
\* position, so this option gives the body the velocity v.
Moving(v) == [previousPosition |-> scalar(v, -Q)] @@ Rigid

Static == [isStatic |-> TRUE] @@ Rigid

Op(kind, body, value) == [kind |-> kind, body |-> body, value |-> value]

Unit == [delta |-> Q, lastDelta |-> Q]

NoGravity == [gravity |-> Zero]

\* the arguments of one call of rect
Rect(x, y, width, height, opts) ==
    [x |-> x, y |-> y, width |-> width, height |-> height, opts |-> opts]

\* a scene before its bodies are built
Layout(name, rects, opts, ops) ==
    [name |-> name, rects |-> rects, opts |-> opts, ops |-> ops]

\* a box lying on a static floor under gravity
Resting(name, opts, ops) ==
    Layout(name,
           << Rect(0, 20 * Q, 40 * Q, 10 * Q, Static),
              Rect(15 * Q, 10 * Q, 10 * Q, 10 * Q, Rigid) >>,
           [gravity |-> Vec(0, 100)] @@ opts, ops)

\* a box at rest and a second one that reaches it after `SLEEPING_MAX_COUNT`
\* updates at the speed v
Struck(name, target, v, ops) ==
    Layout(name,
           << Rect(0, 0, 10 * Q, 10 * Q, target),
              Rect(100 - (SLEEPING_MAX_COUNT + 1) * v - 10 * Q, 0, 10 * Q, 10 * Q,
                   Moving(Vec(v, 0))) >>,
           NoGravity, ops)

Layouts ==
    << Resting("rest", << >>,
               { Op("force", 2, Vec(0, -20 * Q)), Op("force", 2, Vec(10 * Q, 0)),
                 Op("torque", 2, Vec(Q, 0)), Op("force", 1, Vec(Q, 0)) }),
       Resting("nosleep", [enableSleeping |-> FALSE],
               { Op("force", 2, Vec(0, -20 * Q)) }),
       \* two boxes side by side in free fall; one may be put onto the other
       Layout("free",
              << Rect(0, 0, 10 * Q, 10 * Q, Rigid),
                 Rect(20 * Q, 0, 10 * Q, 10 * Q, Rigid) >>,
              << >>,
              { Op("position", 1, Vec(15 * Q, 0)),
                Op("position", 2, Vec(-15 * Q, 0)) }),
       \* two boxes one above the other, the upper one falling slowly
       Layout("apart",
              << Rect(0, 20 * Q, 10 * Q, 10 * Q, Rigid),
                 Rect(0, 0, 10 * Q, 10 * Q, Moving(Vec(0, 20))) >>,
              NoGravity, {}),
       Struck("slow", Rigid, 300, {}),
       Struck("fast", Rigid, 400, {}),
       Struck("wall", Static, 400, { Op("force", 1, Vec(Q, 0)) }),
       \* two boxes that meet at once
       Layout("meet",
              << Rect(0, 0, 10 * Q, 10 * Q, Moving(Vec(500, 0))),
                 Rect(11 * Q, 2 * Q, 10 * Q, 10 * Q, Moving(Vec(-500, 0))) >> ,
              NoGravity, {}),
       \* the same, the first box made with the option mass: 500
       Layout("heavy",
              << Rect(0, 0, 10 * Q, 10 * Q,
                      [mass |-> 500 * Q] @@ Moving(Vec(500, 0))),
                 Rect(11 * Q, 2 * Q, 10 * Q, 10 * Q, Moving(Vec(-500, 0))) >> ,
              NoGravity, {}),
       \* a wide box and a tall one crossing in a plus shape
       Layout("cross",
              << Rect(0, 4 * Q, 10 * Q, 2 * Q, Rigid),
                 Rect(3 * Q, 0, 2 * Q, 10 * Q, Rigid) >> ,
              NoGravity, {}) >>

\* new Engine(bodies, options), the bodies made by rect
Scene(l) ==
    [name |-> l.name,
     bodies |-> [i \in 1..Len(l.rects) |->
                   rect(l.rects[i].x, l.rects[i].y, l.rects[i].width,
                        l.rects[i].height, l.rects[i].opts)],
     options |-> extend(DefaultEngineOptions, l.opts), dt |-> Unit,
     script |-> l.ops]

Scenes == { Scene(Layouts[k]) : k \in 1..Len(Layouts) }

NoObs == [start |-> <<>>, entry |-> <<>>, exits |-> <<>>, integrated |-> {},
          atWake |-> <<>>]

Init ==
    /\ \E s \in Scenes :
          /\ bodies = s.bodies
          /\ options = s.options
          /\ dt = s.dt
          /\ script = s.script
    /\ used = 0
    /\ pc = "idle"
    /\ collisionCandidates = <<>>
    /\ collisions = <<>>
    /\ log = <<>>
    /\ emitted = [i \in 1..Len(bodies) |-> <<>>]
    /\ ticks = 0
    /\ obs = NoObs
    /\ fn = [stage |-> "engine"]

Next ==
    \/ UserOp
    \/ PreUpdate
    \/ SleepUpdate
    \/ Gravity
    \/ Integrate
    \/ BroadPhase
    \/ NarrowPhase
    \/ SleepWake
    \/ SolvePositions
    \/ PostSolve
    \/ SolveVelocities
    \/ CollisionEvents
    \/ ForceReset
    \/ EmitUpdate

Spec == Init /\ [][Next]_vars

-----------------------------------------------------------------------------
(* Bounds.overlap and Collision.test called on their own.  The engine is   *)
(* not running; fn holds the arguments and then the results.               *)

Parked ==
    /\ bodies = <<>>
    /\ options = DefaultEngineOptions
    /\ dt = Unit
    /\ script = {}
    /\ used = 0
    /\ pc = "idle"
    /\ collisionCandidates = <<>>
    /\ collisions = <<>>
    /\ log = <<>>
    /\ emitted = <<>>
    /\ ticks = 0
    /\ obs = NoObs

MaxCoord == 3

Coords == {c * Q : c \in 0..MaxCoord}

Boxes ==
    { [min |-> Vec(x1, y1), max |-> Vec(x2, y2)] :
        x1 \in Coords, x2 \in Coords, y1 \in Coords, y2 \in Coords }

BoundsOf == { b \in Boxes : b.min.x < b.max.x /\ b.min.y < b.max.y }

InitOverlap ==
    /\ Parked
    /\ fn \in { [stage |-> "overlapArgs", a |-> a, b |-> b] :
                  a \in BoundsOf, b \in BoundsOf }

\* Bounds.overlap(a, b) and Bounds.overlap(b, a)
CallOverlap ==
    /\ fn.stage = "overlapArgs"
    /\ fn' = [stage |-> "overlapResult", a |-> fn.a, b |-> fn.b,
              result |-> overlap(fn.a, fn.b), swapped |-> overlap(fn.b, fn.a)]
    /\ UNCHANGED engineVars

NextOverlap == CallOverlap

SpecOverlap == InitOverlap /\ [][NextOverlap]_vars

\* A rectangle whose vertex list starts at the corner number `first`, so
\* that its axes come in another order.
RECURSIVE Cycle(_, _)
Cycle(seq, n) == IF n <= 0 THEN seq ELSE Cycle(Tail(seq) \o <<Head(seq)>>, n - 1)

turned(x, y, width, height, first) ==
    LET Restarted(r) ==
            Body([position |-> r.position,
                  vertices |->
                      Cycle([i \in 1..4 |-> sub(r.vertices[i], r.position)],
                            first - 1)] @@ Rigid)
    IN  Restarted(rect(x, y, width, height, Rigid))

MaxOffset == 2
Step == 3 * Q

Offsets == {k * Step : k \in (0 - MaxOffset)..MaxOffset}

Firsts == { turned(0, 0, 10 * Q, h, 1) : h \in {2 * Q, 10 * Q} }

Seconds ==
    { turned(x, y, w, h, first) :
        x \in Offsets, y \in Offsets,
        w \in {2 * Q, 10 * Q}, h \in {2 * Q, 10 * Q}, first \in {1, 2} }

InitTest ==
    /\ Parked
    /\ fn \in { [stage |-> "testArgs", body1 |-> a, body2 |-> b] :
                  a \in Firsts, b \in Seconds }

\* Collision.test(body1, body2) and Collision.test(body2, body1)
CallTest ==
    /\ fn.stage = "testArgs"
    /\ fn' = [stage |-> "testResult", body1 |-> fn.body1, body2 |-> fn.body2,
              forward |-> test(fn.body1, fn.body2),
              backward |-> test(fn.body2, fn.body1)]
    /\ UNCHANGED engineVars

NextTest == CallTest

SpecTest == InitTest /\ [][NextTest]_vars

-----------------------------------------------------------------------------
(* One Body on its own: the constructor, then assignments to its properties,  *)
(* Body.update and Collision.postSolvePosition in any order.  fn holds the    *)
(* body, the body before the last operation, and that operation.              *)

MaxBodyOps == 2

\* vertices relative to the position, as the constructor's callers give them:
\* three rectangles, a parallelogram and a triangle
Shapes ==
    LET BoxShape(w, h) ==
            << Vec(0 - w \div 2, 0 - h \div 2), Vec(w \div 2, 0 - h \div 2),
               Vec(w \div 2, h \div 2), Vec(0 - w \div 2, h \div 2) >>
    IN  << BoxShape(4 * Q, 2 * Q),
           BoxShape(2 * Q, 2 * Q),
           BoxShape(2 * Q, 6 * Q),
           << Vec(0, 0), Vec(4 * Q, 0), Vec(6 * Q, 2 * Q), Vec(2 * Q, 2 * Q) >>,
           << Vec(0, 0), Vec(4 * Q, 0), Vec(0, 3 * Q) >> >>

\* the option bags given to new Body(options)
Bags ==
    LET At(x, y, k) == [position |-> Vec(x, y), vertices |-> Shapes[k]]
    IN  << At(0, 0, 1),
           [density |-> 2 * Q] @@ At(Q, Q, 1),
           [mass |-> 5 * Q] @@ At(0, 0, 1),
           [area |-> 3 * Q] @@ At(0, 0, 1),
           [mass |-> 5 * Q, invMass |-> 200] @@ At(0, 0, 1),
           [isStatic |-> TRUE] @@ At(0, 0, 1),
           Static @@ At(2 * Q, 0, 1),
           [previousPosition |-> Vec(-500, 200), force |-> Vec(2 * Q, Q),
            frictionAir |-> 100, density |-> Q] @@ At(0, 0, 2),
           [density |-> Q] @@ At(0, 0, 4),
           [previousAngle |-> -200, angle |-> 500, density |-> Q]
               @@ At(Q, 2 * Q, 5),
           [previousPosition |-> Vec(-500, 200), previousAngle |-> -200,
            density |-> Q] @@ At(Q, 2 * Q, 1) >>

Held(body, before, op, d, n) ==
    [stage |-> "body", body |-> body, before |-> before, op |-> op, d |-> d,
     n |-> n]

InitBody ==
    /\ Parked
    /\ \E k \in 1..Len(Bags) :
          fn = Held(Body(Bags[k]), Blank, "new", Unit, 0)

BodyMayChange == fn.stage = "body" /\ fn.n < MaxBodyOps

\* body.vertices = vertices
AssignVertices ==
    /\ BodyMayChange
    /\ \E v \in {Shapes[3], Shapes[4]} :
          fn' = Held(setVertices(fn.body, v), fn.body, "vertices", Unit, fn.n + 1)
    /\ UNCHANGED engineVars

\* body.isStatic = v
AssignIsStatic ==
    /\ BodyMayChange
    /\ \E v \in BOOLEAN :
          fn' = Held(setIsStatic(fn.body, v), fn.body, "isStatic", Unit, fn.n + 1)
    /\ UNCHANGED engineVars

\* body.position = p
AssignPosition ==
    /\ BodyMayChange
    /\ \E p \in {Vec(3 * Q, Q), Vec(-2 * Q, 0)} :
          fn' = Held(setPosition(fn.body, p), fn.body, "position", Unit, fn.n + 1)
    /\ UNCHANGED engineVars

\* body.angle = v
AssignAngle ==
    /\ BodyMayChange
    /\ \E v \in {0, 500, HalfPi} :
          fn' = Held(setAngle(fn.body, v), fn.body, "angle", Unit, fn.n + 1)
    /\ UNCHANGED engineVars

\* body.update(dt)
CallUpdate ==
    /\ BodyMayChange
    /\ \E d \in {Unit, [delta |-> 2 * Q, lastDelta |-> Q]} :
          fn' = Held(update(fn.body, d), fn.body, "update", d, fn.n + 1)
    /\ UNCHANGED engineVars

\* Collision.postSolvePosition([body]), solvePosition having left the impulse
CallPostSolve ==
    /\ BodyMayChange
    /\ \E impulse \in {Zero, Vec(Q, -500)} :
          fn' = Held(postSolveBody([fn.body EXCEPT !.positionImpulse = impulse]),
                     fn.body, "postSolve", Unit, fn.n + 1)
    /\ UNCHANGED engineVars

NextBody ==
    \/ AssignVertices
    \/ AssignIsStatic
    \/ AssignPosition
    \/ AssignAngle
    \/ CallUpdate
    \/ CallPostSolve

SpecBody == InitBody /\ [][NextBody]_vars

-----------------------------------------------------------------------------
(* Vertices.centroid and Vertices.inertia called on their own: fn holds a   *)
(* rectangle, then the result of one of the two functions.                  *)

MaxHalfSide == 3

\* the corners of a width x height rectangle around `centre`, in the order
\* BodyFactory.rect lists them
Box(width, height, centre) ==
    LET Corners(halfWidth, halfHeight) ==
            << add(centre, Vec(FNeg(halfWidth), FNeg(halfHeight))),
               add(centre, Vec(halfWidth, FNeg(halfHeight))),
               add(centre, Vec(halfWidth, halfHeight)),
               add(centre, Vec(FNeg(halfWidth), halfHeight)) >>
    IN  Corners(FDiv(width, 2 * Q), FDiv(height, 2 * Q))

Moved(vertices, t) == [i \in 1..Len(vertices) |-> add(vertices[i], t)]

InitVertices ==
    /\ Parked
    /\ fn \in { [stage |-> "polygon", width |-> 2 * a * Q, height |-> 2 * b * Q,
                 centre |-> c, t |-> t, mass |-> m] :
                  a \in 1..MaxHalfSide, b \in 1..MaxHalfSide,
                  c \in {Zero, Vec(3 * Q, 2 * Q), Vec(-Q, 4 * Q)},
                  t \in {Vec(Q, 0), Vec(-2 * Q, 3 * Q)},
                  m \in {6 * Q, 12 * Q} }

\* Vertices.centroid(vertices), for the rectangle and for its translate
CallCentroid ==
    /\ fn.stage = "polygon"
    /\ fn' = [fn EXCEPT !.stage = "centroid"] @@
             [result |-> centroid(Box(fn.width, fn.height, fn.centre)),
              moved |-> centroid(Moved(Box(fn.width, fn.height, fn.centre),
                                       fn.t))]
    /\ UNCHANGED engineVars

\* Vertices.inertia(vertices, mass, c), c the centre of the rectangle
CallInertia ==
    /\ fn.stage = "polygon"
    /\ fn' = [fn EXCEPT !.stage = "inertia"] @@
             [result |-> inertia(Box(fn.width, fn.height, fn.centre),
                                 fn.mass, fn.centre)]
    /\ UNCHANGED engineVars

NextVertices == CallCentroid \/ CallInertia

SpecVertices == InitVertices /\ [][NextVertices]_vars

-----------------------------------------------------------------------------
(* The loop of Collision.solveVelocity over the contacts of one collision,  *)
(* one contact a step: fn holds the two bodies, the collision, the number i *)
(* of the contact to solve next and the number n of calls completed.        *)

MaxSolves == 3

\* two boxes that overlap, built with the velocities v1 and v2
Meeting(x, y, v1, v2) ==
    << rect(0, 0, 10 * Q, 10 * Q, Moving(v1)),
       rect(x, y, 10 * Q, 10 * Q, Moving(v2)) >>

\* the collisions of the two bodies, as narrowPhase finds them and as the
\* first loop of solvePosition measures them
Measured(bs) ==
    LET WithSeparation(cs) ==
            [k \in 1..Len(cs) |->
                [cs[k] EXCEPT !.separation = Separation(bs, cs[k])]]
    IN  WithSeparation(narrowPhase(bs, << <<1, 2>> >>))

Solving(bs, c, i, n, before, last) ==
    [stage |-> "contact", bodies |-> bs, collision |-> c, i |-> i, n |-> n,
     before |-> before, last |-> last]

InitContact ==
    /\ Parked
    /\ \E x \in {0, 9 * Q}, y \in {2 * Q, 9 * Q},
          v1 \in {Zero, Vec(Q, 0), Vec(3 * Q, 0), Vec(0, 3 * Q), Vec(3 * Q, Q)},
          v2 \in {Zero, Vec(-Q, 0), Vec(-3 * Q, -500), Vec(0, -3 * Q)} :
          /\ Len(Measured(Meeting(x, y, v1, v2))) = 1
          /\ Len(Measured(Meeting(x, y, v1, v2))[1].contacts) > 0
          /\ fn = Solving(Meeting(x, y, v1, v2),
                          Measured(Meeting(x, y, v1, v2))[1], 1, 0,
                          Meeting(x, y, v1, v2), 0)

\* one pass of the loop over the contacts; the velocities of the two bodies
\* are derived before the first contact of every call
SolveOneContact ==
    LET Entered(bs, c) ==
            IF fn.i = 1
            THEN [bs EXCEPT ![c.body1] = Rederive(@), ![c.body2] = Rederive(@)]
            ELSE bs
        Left(before, r) ==
            Solving(r[1], [fn.collision EXCEPT !.contacts[fn.i] = r[2]],
                    IF fn.i = Len(fn.collision.contacts) THEN 1 ELSE fn.i + 1,
                    IF fn.i = Len(fn.collision.contacts) THEN fn.n + 1 ELSE fn.n,
                    before, fn.i)
        Solved(before) ==
            Left(before, SolveContact(before, fn.collision,
                                      fn.collision.contacts[fn.i]))
    IN  /\ fn.stage = "contact"
        /\ fn.n < MaxSolves
        /\ fn' = Solved(Entered(fn.bodies, fn.collision))
        /\ UNCHANGED engineVars

NextContact == SolveOneContact

SpecContact == InitContact /\ [][NextContact]_vars

-----------------------------------------------------------------------------
(* Timer (src/Timer.js).  fn holds the timer: its options, _previousTime,   *)
(* _previousDeltas and _frameHandle (0 when undefined), the frame requests  *)
(* that are pending, and whether _onTick is running, which it is while      *)
(* engine.update and its listeners run.  Times are in thousandths of a      *)
(* millisecond.  stopped, updates and late record the calls: stop() was     *)
(* called and start() not since, the calls of engine.update, and those of   *)
(* them made while stopped.                                                 *)

MaxFrames == 4

\* new Timer(engine, options): the options with the defaults computed from
\* fps = 60, and the internal state
InitTimer ==
    /\ Parked
    /\ \E isFixed \in BOOLEAN, deltaSamplesCount \in {1, 2} :
          fn = [stage |-> "timer",
                options |->
                    [isFixed |-> isFixed,
                     deltaSamplesCount |-> deltaSamplesCount,
                     delta |-> FDiv(1000 * Q, 60 * Q),
                     deltaMin |-> FDiv(1000 * Q, 60 * Q),
                     deltaMax |-> FMul(FDiv(1000 * Q, 60 * Q), 2 * Q)],
                previousTime |-> 0, previousDeltas |-> <<>>, frameHandle |-> 0,
                pending |-> {}, issued |-> 0, running |-> FALSE, arg |-> Unit,
                stopped |-> FALSE, updates |-> 0, late |-> 0]

\* timer.start() on a timer that has no frame pending:
\* this._frameHandle = requestAnimationFrame(this._onTick)
TimerStart ==
    /\ fn.stage = "timer"
    /\ ~fn.running /\ fn.pending = {}
    /\ fn.issued < MaxFrames
    /\ fn' = [fn EXCEPT !.issued = @ + 1, !.frameHandle = fn.issued + 1,
                        !.pending = @ \cup {fn.issued + 1},
                        !.stopped = FALSE]
    /\ UNCHANGED engineVars

\* timer.stop(): cancelAnimationFrame(this._frameHandle), called between two
\* frames or, while _onTick runs, from a listener of the engine
TimerStop ==
    /\ fn.stage = "timer"
    /\ fn' = [fn EXCEPT !.pending = @ \ {fn.frameHandle}, !.stopped = TRUE]
    /\ UNCHANGED engineVars

\* a pending frame fires: _onTick(time) up to the call of engine.update
OnTick ==
    LET Sum(deltas) ==
            IF Len(deltas) = 0 THEN 0
            ELSE IF Len(deltas) = 1 THEN deltas[1] ELSE FAdd(deltas[1], deltas[2])
        \* slice(-deltaSamplesCount)
        Last(deltas, count) ==
            IF Len(deltas) <= count THEN deltas
            ELSE SubSeq(deltas, Len(deltas) - count + 1, Len(deltas))
        Called(t, delta, lastDelta) ==
            [t EXCEPT !.running = TRUE,
                      !.arg = [delta |-> delta, lastDelta |-> lastDelta],
                      !.updates = @ + 1,
                      !.late = IF t.stopped THEN @ + 1 ELSE @]
        Smoothed(t, deltas, delta) ==
            Called([t EXCEPT !.previousDeltas = deltas], delta,
                   IF Len(deltas) <= 1 THEN delta ELSE deltas[Len(deltas) - 1])
        Stored(t, deltas) ==
            Smoothed(t, deltas,
                     FMax(t.options.deltaMin,
                          FMin(FDiv(Sum(deltas), t.options.deltaSamplesCount * Q),
                               t.options.deltaMax)))
        Timed(t, time, delta) ==
            Stored([t EXCEPT !.previousTime = time],
                   Last(Append(t.previousDeltas, delta),
                        t.options.deltaSamplesCount))
    IN  /\ fn.stage = "timer"
        /\ ~fn.running
        /\ \E handle \in fn.pending, step \in {0, 10 * Q, 40 * Q} :
              fn' = IF fn.options.isFixed
                    THEN Called([fn EXCEPT !.pending = @ \ {handle}],
                                fn.options.delta, fn.options.delta)
                    ELSE Timed([fn EXCEPT !.pending = @ \ {handle}],
                               fn.previousTime + step,
                               IF step = 0 THEN fn.options.delta ELSE step)
        /\ UNCHANGED engineVars

\* engine.update has returned: _onTick requests the next frame
OnTickEnd ==
    /\ fn.stage = "timer"
    /\ fn.running
    /\ fn.issued < MaxFrames
    /\ fn' = [fn EXCEPT !.issued = @ + 1, !.frameHandle = fn.issued + 1,
                        !.pending = @ \cup {fn.issued + 1},
                        !.running = FALSE]
    /\ UNCHANGED engineVars

NextTimer == TimerStart \/ TimerStop \/ OnTick \/ OnTickEnd

SpecTimer == InitTimer /\ [][NextTimer]_vars

-----------------------------------------------------------------------------
(* Properties of the engine's tick *)

PhaseOrder ==
    <<"sleep", "gravity", "integrate", "broad", "narrow", "wake", "position",
      "postSolve", "velocity", "events", "reset", "emit", "done">>

Index(p) == CHOOSE k \in 1..Len(PhaseOrder) : PhaseOrder[k] = p

\* the running update has gone through the phase p
After(p) == pc # "idle" /\ Index(pc) > Index(p)

\* the contact c involves body i, and the other body of c
Involves(c, i) == c.body1 = i \/ c.body2 = i
Other(c, i) == IF c.body1 = i THEN c.body2 ELSE c.body1

\* C1: when Engine.update has returned, every body of the engine has
\* force = (0, 0) and torque = 0, whatever force or torque was set before the
\* call or in a preUpdate listener.
C1_ForceReset ==
    pc = "done" => \A i \in Ids : bodies[i].force = Zero /\ bodies[i].torque = 0

\* an update has returned in which a preUpdate listener had set a force or a
\* torque on a body that had none
C1_Witness ==
    /\ pc = "done"
    /\ \E i \in Ids : ~HasForce(obs.start[i]) /\ HasForce(obs.entry[i])

IsStatic(i) == bodies[i].isStatic

SameGeometry(b, c) ==
    /\ b.position = c.position
    /\ b.angle = c.angle
    /\ b.vertices = c.vertices
    /\ b.bounds = c.bounds

\* C2: a static body has, at every point of every Engine.update, the
\* position, angle, vertices and bounds it had when the update was called
\* (hence after any number of updates), its previousPosition and
\* previousAngle are not changed either, and its positionImpulse stays (0, 0).
C2_StaticRigidity ==
    pc # "idle" =>
        \A i \in Ids : IsStatic(i) =>
            /\ SameGeometry(bodies[i], obs.start[i])
            /\ bodies[i].previousPosition = obs.start[i].previousPosition
            /\ bodies[i].previousAngle = obs.start[i].previousAngle
            /\ bodies[i].positionImpulse = Zero

\* a later update has returned whose contacts involve a static body
C2_Witness ==
    /\ pc = "done"
    /\ ticks > 1
    /\ \E k \in 1..Len(collisions) :
          IsStatic(collisions[k].body1) \/ IsStatic(collisions[k].body2)

\* C3: at the end of every Engine.update every sleeping body has velocity
\* (0, 0), angularVelocity 0, previousPosition = position and previousAngle =
\* angle, also when it was in contact with an awake body during the update.
C3_SleepConsistency ==
    pc = "done" =>
        \A i \in Ids : bodies[i].isSleeping =>
            /\ bodies[i].velocity = Zero
            /\ bodies[i].angularVelocity = 0
            /\ bodies[i].previousPosition = bodies[i].position
            /\ bodies[i].previousAngle = bodies[i].angle

\* an update has returned with a contact between a sleeping body that is not
\* static and a body that is awake and not static
C3_Witness ==
    /\ pc = "done"
    /\ \E k \in 1..Len(collisions), i \in Ids :
          /\ Involves(collisions[k], i)
          /\ bodies[i].isSleeping /\ ~IsStatic(i)
          /\ shouldUpdate(bodies[Other(collisions[k], i)])

\* C4: with enableSleeping = true a static body is never sleeping and has
\* never emitted sleepEnter.
C4_StaticNeverSleeps ==
    options.enableSleeping =>
        \A i \in Ids : IsStatic(i) => ~bodies[i].isSleeping /\ Enters(i) = 0

\* the bodies that were sleeping and had a force or a torque when the running
\* update came to its sleep update
Forced ==
    {i \in DOMAIN obs.entry : obs.entry[i].isSleeping /\ HasForce(obs.entry[i])}

\* C5: a body that is sleeping and has a nonzero force or torque when the
\* sleep update runs is awake after the sleep update, has emitted sleepExit
\* exactly once in this update, is integrated in this update, and is still
\* awake when the update returns.
C5_ForcedAwake ==
    \A i \in Forced :
        /\ After("sleep") => ~bodies[i].isSleeping /\ Exits(i) = obs.exits[i] + 1
        /\ After("integrate") => i \in obs.integrated

\* the claim's threshold: squared motion strictly greater than 0.09
Wakes(b) == ~b.isStatic /\ ~b.isSleeping /\ FGt(Motion(b), 90)

\* C6: right after the sleep-wake step, a body that was sleeping before the
\* step has been woken, and has emitted sleepExit, if and only if some contact
\* of this update pairs it with a body that is neither static nor sleeping
\* and whose squared motion is strictly greater than 0.09.
C6_WokenIff ==
    (pc = "position" /\ options.enableSleeping) =>
        \A s \in Ids : obs.atWake[s].isSleeping =>
            LET woken == ~bodies[s].isSleeping
                hit == \E k \in 1..Len(collisions) :
                          /\ Involves(collisions[k], s)
                          /\ Wakes(obs.atWake[Other(collisions[k], s)])
            IN  /\ woken <=> hit
                /\ Exits(s) = obs.exits[s] + (IF woken THEN 1 ELSE 0)

\* the events of the contacts: for each contact, body1 and then body2
EventsOf(cs) ==
    [n \in 1..(2 * Len(cs)) |->
        LET c == cs[(n + 1) \div 2]
        IN  Entry("collision", IF n % 2 = 1 THEN c.body1 ELSE c.body2,
                  << <<c.body1, c.body2>> >>)]

Repeat(name, n) == [k \in 1..n |-> Phase(name)]

IfSleeping(name) == IF options.enableSleeping THEN <<Phase(name)>> ELSE <<>>

WholeTick ==
    <<Phase("preUpdate")>> \o IfSleeping("updateSleeping")
    \o <<Phase("gravity"), Phase("integrate"), Phase("broadPhase"),
         Phase("narrowPhase")>>
    \o IfSleeping("updateSleepingCollisions")
    \o <<Phase("preSolvePosition")>>
    \o Repeat("solvePosition", options.positionIterations)
    \o <<Phase("postSolvePosition")>>
    \o Repeat("solveVelocity", options.velocityIterations)
    \o EventsOf(collisions)
    \o <<Phase("resetForces"), Entry("update", 0, Pairs(collisions))>>

\* the bodies as the preUpdate listeners left them, after the sleep update
Slept ==
    IF options.enableSleeping
    THEN updateSleeping([bodies |-> obs.entry, emitted |-> emitted]).bodies
    ELSE obs.entry

\* C7: an update that has returned has run, in this order: one preUpdate
\* event, the sleep update (when sleeping is enabled), gravity, integration,
\* broad phase, narrow phase, sleep-wake (when sleeping is enabled), the
\* position iterations, postSolvePosition, the velocity iterations, for each
\* contact a collision event on body1 and then on body2, the force reset, and
\* one update event carrying the contacts.  The integration works on the
\* forces as the preUpdate listeners left them.
C7_PhaseOrder ==
    /\ pc = "done" => log = WholeTick
    /\ pc = "broad" =>
          \A i \in Ids :
              LET b == applyGravity(Slept[i], options.gravity)
              IN  bodies[i] = IF i \in obs.integrated THEN update(b, dt) ELSE b

\* an update has returned that had contacts and in which a preUpdate listener
\* had set the force of a body that was then integrated
C7_Witness ==
    /\ pc = "done"
    /\ Len(collisions) > 0
    /\ \E i \in obs.integrated : obs.entry[i].force # obs.start[i].force

\* the symmetric test of two boxes being apart
Disjoint(a, b) ==
    \/ FLt(a.max.x, b.min.x)
    \/ FGt(a.min.x, b.max.x)
    \/ FLt(a.max.y, b.min.y)
    \/ FGt(a.min.y, b.max.y)

\* C8: the contacts that the narrow phase has produced hold no pair of bodies
\* whose bounds are disjoint.
C8_NoPhantomContact ==
    pc = "wake" =>
        \A k \in 1..Len(collisions) :
            ~Disjoint(bodies[collisions[k].body1].bounds,
                      bodies[collisions[k].body2].bounds)

-----------------------------------------------------------------------------
(* Properties of the library functions *)

\* C9: Bounds.overlap(a, b) is false exactly when a.max.x < b.min.x or
\* a.min.x > b.max.x or a.max.y < b.min.y or a.min.y > b.max.y, and it gives
\* the same answer for (b, a).
C9_OverlapFormula ==
    fn.stage = "overlapResult" =>
        /\ fn.result <=> ~Disjoint(fn.a, fn.b)
        /\ fn.result = fn.swapped

\* C10: Collision.test(A, B) and Collision.test(B, A) agree on colliding, and
\* when they collide the normal of one is the other's negated.
C10_TestSymmetry ==
    fn.stage = "testResult" =>
        /\ fn.forward.colliding = fn.backward.colliding
        /\ fn.forward.colliding =>
              /\ FEq(fn.forward.normal.x, FNeg(fn.backward.normal.x))
              /\ FEq(fn.forward.normal.y, FNeg(fn.backward.normal.y))

-----------------------------------------------------------------------------
(* Properties of one body *)

\* a * b = 1, in the arithmetic of the model: a is the quotient 1 / b
Inverse(a, b) == a = FDiv(Q, b)

\* C11: after the constructor and after every assignment, a body that is not
\* static has invMass * mass = 1 and a static body has invMass = 0.
C11_MassInverse ==
    fn.stage = "body" =>
        IF fn.body.isStatic THEN fn.body.invMass = 0
        ELSE Inverse(fn.body.invMass, fn.body.mass)

\* C12: a body whose isStatic is true has mass = Infinity, an infinite inertia,
\* invMass = 0 and invInertia = 0.
C12_StaticInfinite ==
    (fn.stage = "body" /\ fn.body.isStatic) =>
        /\ fn.body.mass = PInf
        /\ fn.body.inertia = PInf
        /\ fn.body.invMass = 0
        /\ fn.body.invInertia = 0

\* C13: between operations, the bounds of a body are the least and the
\* greatest coordinates of its vertices.
C13_TightBounds ==
    fn.stage = "body" => fn.body.bounds = fromVertices(fn.body.vertices)

\* C14: an assignment to position moves every vertex and previousPosition by
\* the difference between the new and the old position, so that
\* position - previousPosition is what it was.
C14_PositionKeepsVelocity ==
    (fn.stage = "body" /\ fn.op = "position") =>
        /\ fn.body.previousPosition =
              add(fn.before.previousPosition,
                  sub(fn.body.position, fn.before.position))
        /\ fn.body.vertices =
              [i \in 1..Len(fn.before.vertices) |->
                  add(fn.before.vertices[i],
                      sub(fn.body.position, fn.before.position))]
        /\ sub(fn.body.position, fn.body.previousPosition) =
              sub(fn.before.position, fn.before.previousPosition)

\* a moving body has been given another position
C14_Witness ==
    /\ fn.stage = "body"
    /\ fn.op = "position"
    /\ fn.body.position # fn.before.position
    /\ fn.before.position # fn.before.previousPosition
    /\ Len(fn.body.vertices) > 0

\* C15: no two axes of a body have the same direction(); a body of four
\* vertices, which is a parallelogram here, has two axes, whatever rotation
\* the angle setter or Body.update has applied to them.
C15_AxesDistinct ==
    fn.stage = "body" =>
        /\ \A i, j \in 1..Len(fn.body.axes) :
              i # j => direction(fn.body.axes[i]) # direction(fn.body.axes[j])
        /\ Len(fn.body.vertices) = 4 => Len(fn.body.axes) = 2
        /\ Len(fn.body.vertices) = 3 => Len(fn.body.axes) = 3

\* the axes of a parallelogram have been rotated
C15_Witness ==
    /\ fn.stage = "body"
    /\ fn.op \in {"angle", "update"}
    /\ Len(fn.body.vertices) = 4
    /\ fn.body.axes # fn.before.axes

\* the displacement of one Body.update, as the formula gives it for the body b
\* and the time step d
Displacement(b, d) ==
    add(scalar(scalar(sub(b.position, b.previousPosition),
                      FSub(Q, b.frictionAir)),
               FDiv(d.delta, d.lastDelta)),
        scalar(Vec(FDiv(b.force.x, b.mass), FDiv(b.force.y, b.mass)),
               FMul(FMul(Q \div 2, d.delta), FAdd(d.delta, d.lastDelta))))

\* C16: Body.update on an updating body sets previousPosition to the old
\* position and moves position by
\* (position - previousPosition) * (1 - frictionAir) * (delta / lastDelta)
\* + (force / mass) * 0.5 * delta * (delta + lastDelta); with
\* delta = lastDelta = 1 that is
\* (position - previousPosition) * (1 - frictionAir) + force / mass.
C16_VerletStep ==
    (fn.stage = "body" /\ fn.op = "update" /\ shouldUpdate(fn.before)) =>
        /\ fn.body.previousPosition = fn.before.position
        /\ fn.body.position = add(fn.before.position, Displacement(fn.before, fn.d))
        /\ fn.d = Unit =>
              fn.body.position =
                  add(fn.before.position,
                      add(scalar(sub(fn.before.position, fn.before.previousPosition),
                                 FSub(Q, fn.before.frictionAir)),
                          Vec(FDiv(fn.before.force.x, fn.before.mass),
                              FDiv(fn.before.force.y, fn.before.mass))))

\* a body with a velocity and a force has been updated with delta # lastDelta
C16_Witness ==
    /\ fn.stage = "body"
    /\ fn.op = "update"
    /\ shouldUpdate(fn.before)
    /\ fn.before.position # fn.before.previousPosition
    /\ fn.before.force # Zero
    /\ fn.before.frictionAir # 0
    /\ fn.d.delta # fn.d.lastDelta
    /\ fn.body.position # fn.before.position

-----------------------------------------------------------------------------
(* Properties of the solvers *)

\* mass * (position - previousPosition), summed over the bodies from i on
RECURSIVE Momentum(_, _)
Momentum(bs, i) ==
    IF i > Len(bs) THEN Zero
    ELSE add(scalar(sub(bs[i].position, bs[i].previousPosition), bs[i].mass),
             Momentum(bs, i + 1))

\* C17: when the colliding bodies all update, the impulses that solveVelocity
\* applies leave the sum of mass * (position - previousPosition) unchanged.
C17_MomentumKept ==
    [][(/\ pc = "velocity"
        /\ Len(collisions) > 0
        /\ \A i \in 1..Len(bodies) : shouldUpdate(bodies[i]))
       => Momentum(bodies', 1) = Momentum(bodies, 1)]_vars

\* C18: a result of Collision.test that is colliding holds one or two contact
\* vertices.
C18_OneOrTwoContacts ==
    fn.stage = "testResult" /\ fn.forward.colliding
        => Len(fn.forward.contacts) \in {1, 2}

-----------------------------------------------------------------------------
(* Properties of Vertices *)

\* The polygon-centroid formula over all the n edges (v[i], v[i + 1]), the
\* last one closing the polygon, in the arithmetic of the model.
RECURSIVE EdgeSum(_, _)
EdgeSum(v, i) ==
    IF i > Len(v) THEN Zero
    ELSE add(scalar(add(v[i], v[Next1(i, Len(v))]),
                    cross(v[i], v[Next1(i, Len(v))])),
             EdgeSum(v, i + 1))

StandardCentroid(v) ==
    scalar(EdgeSum(v, 1), FDiv(Q, FMul(6 * Q, area(v, TRUE))))

\* The factor 1 / (6a) and the product with it are each cut to three
\* decimals: a centroid computed by the formula is off the exact one by at
\* most a thousandth of the sum 6a * centre, and one unit.
Slack(width, height, coordinate) ==
    MulAbs(MulAbs(6 * Q, MulAbs(width, height)), Abs(coordinate)) \div Q + 1

Near(c, centre, width, height) ==
    /\ Abs(c.x - centre.x) <= Slack(width, height, centre.x)
    /\ Abs(c.y - centre.y) <= Slack(width, height, centre.y)

\* C19: Vertices.centroid is the polygon-centroid formula over all n edges;
\* for a rectangle, wherever it lies, it is the centre (up to the rounding of
\* the model), and so the centroid of the translate is the translated centroid.
C19_Centroid ==
    fn.stage = "centroid"
        => /\ fn.result = StandardCentroid(Box(fn.width, fn.height, fn.centre))
           /\ fn.moved = StandardCentroid(Moved(Box(fn.width, fn.height,
                                                    fn.centre), fn.t))
           /\ Near(fn.result, fn.centre, fn.width, fn.height)
           /\ Near(fn.moved, add(fn.centre, fn.t), fn.width, fn.height)

\* The two sums of the inertia formula over all the n pairs (v[i], v[j]) of
\* consecutive vertices, j = i + 1, the last pair closing the polygon.
RECURSIVE PairSums(_, _)
PairSums(v, i) ==
    LET Joined(vi, vj, rest) ==
            << FAdd(FMul(FAbs(cross(vj, vi)),
                         FAdd(FAdd(dot(vj, vj), dot(vj, vi)), dot(vi, vi))),
                    rest[1]),
               FAdd(FAbs(cross(vj, vi)), rest[2]) >>
    IN  IF i > Len(v) THEN <<0, 0>>
        ELSE Joined(v[i], v[Next1(i, Len(v))], PairSums(v, i + 1))

StandardInertia(v, mass, c) ==
    LET Ratio(s) == FDiv(s[1], s[2])
    IN  FMul(FDiv(mass, 6 * Q), Ratio(PairSums(Moved(v, Vec(-c.x, -c.y)), 1)))

\* C20: Vertices.inertia is (mass / 6) * (sum of |vj x vi| * (vj.vj + vj.vi +
\* vi.vi)) / (sum of |vj x vi|) over all n pairs of consecutive vertices moved
\* by -c; for a rectangle about its centre that is mass * (w^2 + h^2) / 12.
C20_Inertia ==
    fn.stage = "inertia"
        => /\ fn.result = StandardInertia(Box(fn.width, fn.height, fn.centre),
                                          fn.mass, fn.centre)
           /\ fn.result = FDiv(FMul(fn.mass,
                                    FAdd(FMul(fn.width, fn.width),
                                         FMul(fn.height, fn.height))),
                               12 * Q)

-----------------------------------------------------------------------------
(* Properties of the velocity solver, a contact at a time *)

\* the contact that the last step solved, as it was before and as it is now
LastContact == fn.collision.contacts[fn.last]

\* the velocity of body1 relative to body2 at the contact point, along the
\* normal, before the last step
NormalVelocity ==
    LET ContactVelocity(r, body) ==
            add(scalar(perp(r), body.angularVelocity), body.velocity)
    IN  dot(sub(ContactVelocity(sub(LastContact.vertex, fn.before[1].position),
                                fn.before[1]),
                ContactVelocity(sub(LastContact.vertex, fn.before[2].position),
                                fn.before[2])),
            fn.collision.normal)

\* vn < 0 and vn^2 > RESTING_THRESH at the last step
SolvedFast ==
    /\ fn.stage = "contact"
    /\ fn.last > 0
    /\ FLt(NormalVelocity, 0)
    /\ FGt(FMul(NormalVelocity, NormalVelocity), RESTING_THRESH)

\* (1 + restitution) * vn / denominator for the last step
FullNormalImpulse ==
    LET Arm(b) == cross(sub(LastContact.vertex, fn.before[b].position),
                        fn.collision.normal)
        Turning(b) == FMul(FMul(fn.before[b].invInertia, Arm(b)), Arm(b))
    IN  FDiv(FMul(FAdd(Q, fn.collision.restitution), NormalVelocity),
             FMul(FAdd(FAdd(FAdd(fn.before[1].invMass, fn.before[2].invMass),
                            Turning(1)),
                       Turning(2)),
                  Len(fn.collision.contacts) * Q))

\* what the last step added to previousPosition of the body b, along the normal
AlongNormal(b) ==
    dot(sub(fn.bodies[b].previousPosition, fn.before[b].previousPosition),
        fn.collision.normal)

\* C21 as stated: a contact with vn < 0 and vn^2 > 6 gets no impulse along
\* the normal in that iteration.
C21_FastGetsNoNormalImpulse ==
    SolvedFast => AlongNormal(1) = 0 /\ AlongNormal(2) = 0

\* C21 amended: for such a contact the impulse stored on the contact is reset
\* to zero, and the impulse applied along the normal is the whole
\* (1 + restitution) * vn / denominator, which is not zero.
C21_FastGetsFullImpulse ==
    SolvedFast
        => /\ LastContact.normalImpulse = 0
           /\ FullNormalImpulse # 0
           /\ AlongNormal(1) = FMul(FullNormalImpulse, fn.before[1].invMass)
           /\ AlongNormal(2) = FNeg(FMul(FullNormalImpulse, fn.before[2].invMass))
           /\ AlongNormal(1) # 0

C21_Witness == SolvedFast /\ fn.n = 1 /\ Len(fn.collision.contacts) = 2

-----------------------------------------------------------------------------
(* Properties of the position solver *)

\* the bodies of the collisions that update and hold an impulse
Pushed ==
    { b \in 1..Len(bodies) :
        /\ \E k \in 1..Len(collisions) :
              b \in {collisions[k].body1, collisions[k].body2}
        /\ shouldUpdate(bodies[b])
        /\ bodies[b].positionImpulse # Zero }

FiniteVec(v) == Finite(v.x) /\ Finite(v.y)

\* C27: a body that updates and to which solvePosition has given an impulse
\* has totalContacts >= 1, its positionImpulse is finite, and its position
\* is finite after postSolvePosition.
C27_ShareFinite ==
    /\ pc = "postSolve"
          => \A b \in Pushed : /\ bodies[b].totalContacts >= 1
                               /\ FiniteVec(bodies[b].positionImpulse)
    /\ pc = "velocity"
          => \A b \in 1..Len(bodies) : FiniteVec(bodies[b].position)

\* what postSolvePosition makes of the body `before` that holds the impulse d
Corrected(before, after, d) ==
    /\ after.vertices = [i \in 1..Len(before.vertices) |-> add(before.vertices[i], d)]
    /\ after.bounds = translate(before.bounds, d)
    /\ after.position = add(before.position, d)
    /\ after.previousPosition = add(before.previousPosition, d)
    /\ sub(after.position, after.previousPosition)
           = sub(before.position, before.previousPosition)
    /\ after.positionImpulse = Zero
    /\ after.totalContacts = 0

\* C22: postSolvePosition moves vertices, bounds, position and
\* previousPosition of every body by its positionImpulse, which leaves
\* position - previousPosition as it was, and leaves the body with
\* positionImpulse = (0, 0) and totalContacts = 0; both are so at the end of
\* every tick.
C22_PostSolve ==
    [][/\ pc = "postSolve"
          => \A b \in 1..Len(bodies) :
                Corrected(bodies[b], bodies'[b], bodies[b].positionImpulse)
       /\ pc' = "idle"
          => \A b \in 1..Len(bodies') : /\ bodies'[b].positionImpulse = Zero
                                        /\ bodies'[b].totalContacts = 0]_vars

-----------------------------------------------------------------------------
(* Properties of the broad phase *)

\* the places of the candidate list that hold the bodies i and j, in either
\* order
Places(i, j) ==
    { k \in 1..Len(collisionCandidates) :
        collisionCandidates[k] \in { <<i, j>>, <<j, i>> } }

\* C23: the candidate list of the broad phase holds every pair of distinct
\* bodies whose bounds overlap and one of which updates, each such pair once
\* whatever its order, no body paired with itself and no pair of two bodies
\* that do not update.
C23_BroadPhase ==
    pc = "narrow" =>
        /\ \A i, j \in 1..Len(bodies) :
              (/\ i # j
               /\ ~Disjoint(bodies[i].bounds, bodies[j].bounds)
               /\ shouldUpdate(bodies[i]) \/ shouldUpdate(bodies[j]))
                  => Cardinality(Places(i, j)) = 1
        /\ \A k \in 1..Len(collisionCandidates) :
              /\ collisionCandidates[k][1] # collisionCandidates[k][2]
              /\ Cardinality(Places(collisionCandidates[k][1],
                                    collisionCandidates[k][2])) = 1
              /\ \/ shouldUpdate(bodies[collisionCandidates[k][1]])
                 \/ shouldUpdate(bodies[collisionCandidates[k][2]])

C23_Witness ==
    /\ pc = "narrow"
    /\ Len(collisionCandidates) = 1
    /\ ~Disjoint(bodies[1].bounds, bodies[2].bounds)
    /\ ~shouldUpdate(bodies[1])

-----------------------------------------------------------------------------
(* Properties of Body.update *)

\* a step of Body.update that turned the body
Turned ==
    /\ fn.stage = "body"
    /\ fn.op = "update"
    /\ shouldUpdate(fn.before)
    /\ fn.body.angularVelocity # 0

\* equal up to the rounding of the four products of a rotation
Close(a, b) == Abs(a.x - b.x) <= 5 /\ Abs(a.y - b.y) <= 5

\* C24: after Body.update with an angular velocity that is not zero, the
\* offset of every vertex from the new position is its offset from the old
\* position turned by the angular velocity, and every axis is turned by it.
C24_RigidStep ==
    Turned =>
        /\ \A i \in 1..Len(fn.body.vertices) :
              Close(sub(fn.body.vertices[i], fn.body.position),
                    rotate(sub(fn.before.vertices[i], fn.before.position),
                           fn.body.angularVelocity))
        /\ \A i \in 1..Len(fn.body.axes) :
              fn.body.axes[i] = rotate(fn.before.axes[i], fn.body.angularVelocity)

-----------------------------------------------------------------------------
(* Properties of the sleep counter and of the sleep events *)

\* the smoothed motion of the sleep update is below the threshold
Calm(b) ==
    FLt(FAdd(FMul(900, FMin(b.motion, Motion(b))),
             FMul(100, FMax(b.motion, Motion(b)))),
        SLEEPING_MAX_MOTION_FOR_SLEEP)

\* the counter of a body after a sleep update that found it without force
Counted(b) ==
    IF Calm(b)
    THEN (IF b.sleepCounter < SLEEPING_MAX_COUNT THEN b.sleepCounter + 1
          ELSE SLEEPING_MAX_COUNT)
    ELSE (IF b.sleepCounter > 0 THEN b.sleepCounter - 1 ELSE 0)

\* the counter is within its range, and the k-th sleepEnter of a body comes
\* no earlier than the update number 60 * k
CounterInRange(bs, events, started) ==
    \A i \in 1..Len(bs) :
        /\ bs[i].sleepCounter \in 0..SLEEPING_MAX_COUNT
        /\ SLEEPING_MAX_COUNT
             * Len(SelectSeq(events[i], LAMBDA e : e = "sleepEnter")) <= started

\* C25: a sleep update moves the counter of a body without force up by one,
\* to 60 at most, when the smoothed motion is below 0.04 and else down by one,
\* to 0 at least; after it the body sleeps exactly when the counter is 60;
\* the counter is always within 0..60 and a body enters sleep no earlier than
\* 60 updates after the start.
C25_SleepCounter ==
    [][/\ CounterInRange(bodies, emitted, ticks + 1)
       /\ CounterInRange(bodies', emitted', ticks' + 1)
       /\ (pc = "sleep" /\ options.enableSleeping)
             => \A i \in Ids :
                   ~HasForce(bodies[i])
                      => /\ bodies'[i].sleepCounter = Counted(bodies[i])
                         /\ bodies'[i].isSleeping
                              <=> bodies'[i].sleepCounter = SLEEPING_MAX_COUNT
       /\ \A i \in Ids :
             \* the counter moves in the sleep update only, or back to 0, and
             \* it is 0 after a sleepExit
             /\ bodies'[i].sleepCounter # bodies[i].sleepCounter
                   => pc = "sleep" \/ bodies'[i].sleepCounter = 0
             /\ Exits(i)' > Exits(i) => bodies'[i].sleepCounter = 0]_vars

\* a body has just been put to sleep by its sixtieth sleep update
C25_Witness ==
    /\ pc = "gravity"
    /\ ticks = SLEEPING_MAX_COUNT - 1
    /\ \E i \in Ids : /\ bodies[i].isSleeping
                      /\ ~bodies[i].isStatic
                      /\ emitted[i] = <<"sleepEnter">>

-----------------------------------------------------------------------------
(* Properties of a sleeping body *)

\* the bodies that the running update found asleep and without force or
\* torque, and that no contact of the update has woken
LeftAsleep ==
    IF pc = "idle" THEN {}
    ELSE { i \in DOMAIN obs.entry :
             /\ obs.entry[i].isSleeping
             /\ ~HasForce(obs.entry[i])
             /\ Exits(i) = obs.exits[i] }

\* C26: a body that an update finds asleep and without force or torque, and
\* that no contact wakes, is asleep from the sleep update on and keeps its
\* position, previousPosition, angle, previousAngle, vertices and bounds; the
\* force that gravity gives it is gone when the update returns, so that it
\* cannot wake it in the next one.
C26_SleeperUntouched ==
    \A i \in LeftAsleep :
        /\ bodies[i].isSleeping
        /\ bodies[i].position = obs.entry[i].position
        /\ bodies[i].previousPosition = obs.entry[i].previousPosition
        /\ bodies[i].angle = obs.entry[i].angle
        /\ bodies[i].previousAngle = obs.entry[i].previousAngle
        /\ bodies[i].vertices = obs.entry[i].vertices
        /\ bodies[i].bounds = obs.entry[i].bounds
        /\ pc = "done" => ~HasForce(bodies[i])

\* a box under gravity that is not static has slept through two updates
C26_Witness ==
    /\ pc = "done"
    /\ ticks >= SLEEPING_MAX_COUNT + 2
    /\ options.gravity # Zero
    /\ \E i \in LeftAsleep : ~bodies[i].isStatic

-----------------------------------------------------------------------------
(* Properties of the constructor *)

\* the option bags that the body just constructed may have been given
Given ==
    IF fn.stage = "body" /\ fn.op = "new"
    THEN { k \in 1..Len(Bags) : fn.body = Body(Bags[k]) }
    ELSE {}

Has(bag, option) == option \in DOMAIN bag

\* C28: a body constructed with the options position = p and
\* previousPosition = q has position = p and previousPosition = q, and
\* previousPosition = p when the option previousPosition is not given; one
\* constructed with angle = a and previousAngle = a0 has these two values.
C28_OptionsKept ==
    \A k \in Given :
        /\ fn.body.position = Bags[k].position
        /\ fn.body.previousPosition =
              (IF Has(Bags[k], "previousPosition") THEN Bags[k].previousPosition
               ELSE Bags[k].position)
        /\ Has(Bags[k], "angle") => fn.body.angle = Bags[k].angle
        /\ Has(Bags[k], "previousAngle")
              => fn.body.previousAngle = Bags[k].previousAngle

\* the events of a body are sleepEnter, sleepExit, sleepEnter, ...
Alternating(events) ==
    \A n \in 1..Len(events) :
        events[n] = (IF n % 2 = 1 THEN "sleepEnter" ELSE "sleepExit")

\* C29: the sleep events of a body alternate, sleepEnter first; an event is
\* emitted exactly when the body goes from awake to asleep (sleepEnter) or
\* from asleep to awake (sleepExit), one event a transition, and a body that
\* has just woken has sleepCounter = 0.
C29_EventsAlternate ==
    [][\A i \in Ids :
          /\ Alternating(emitted'[i])
          /\ bodies'[i].isSleeping <=> Len(emitted'[i]) % 2 = 1
          /\ IF bodies'[i].isSleeping = bodies[i].isSleeping
             THEN emitted'[i] = emitted[i]
             ELSE emitted'[i] =
                     Append(emitted[i], IF bodies'[i].isSleeping THEN "sleepEnter"
                                        ELSE "sleepExit")
          /\ (bodies[i].isSleeping /\ ~bodies'[i].isSleeping)
                => bodies'[i].sleepCounter = 0]_vars

\* a body has gone to sleep and has been woken
C29_Witness == \E i \in Ids : emitted[i] = <<"sleepEnter", "sleepExit">>

-----------------------------------------------------------------------------
(* Properties of the timer *)

\* C30: once stop() has been called and start() not since, no frame request
\* is pending and engine.update is not called again, wherever stop() was
\* called, also from a listener that runs in the timer's own tick.
C30_StopStops ==
    (fn.stage = "timer" /\ fn.stopped) => fn.pending = {} /\ fn.late = 0

====
